---- MODULE Spec2Model ----
(***************************************************************************)
(* A model of the ingestion pipeline of the NYC MTA dashboard:             *)
(*   - the Postgres loader  (src/src/load/to_postgres.py):                 *)
(*       upsert, upsert_replace_recent_days                                *)
(*   - the HTTP fetch helper _http_get of the three extractors             *)
(*       (src/src/extract/{mta_daily,events_daily,noaa_daily}.py)          *)
(*   - the window planner daterange_chunks (src/scripts/backfill.py)       *)
(*                                                                         *)
(*   - the epoch planning of fetch_mta_hourly_by_borough, the schema       *)
(*       resolution _pick and the fetches built on it                      *)
(*       (src/src/extract/{mta_hourly,mta_daily,events_daily}.py)          *)
(*   - the normalizers (src/src/transform/clean.py)                        *)
(*   - the backfill jobs (src/scripts/backfill.py) and the daily refresh   *)
(*       (src/scripts/daily_job.py)                                        *)
(*   - the paging loops of the hourly and the events extractor             *)
(*                                                                         *)
(* Each part has its own specification; the parts that are not running     *)
(* stay as they are:                                                       *)
(*   Spec         every sequence of upsert / upsert_replace_recent_days    *)
(*   SpecIngest   sequences of upsert calls only (backfill), with the      *)
(*                history variable owner                                   *)
(*   SpecHttp     one _http_get call against every sequence of responses   *)
(*   SpecChunks   one daterange_chunks generator run to exhaustion         *)
(*   SpecPlan     one fetch_mta_hourly_by_borough call: its sub-requests   *)
(*   SpecSchema   one _pick call, or one fetch on a live schema            *)
(*   SpecBoro     one borough string through the canonicalization          *)
(*   SpecNorm     one normalizer call, with or without the hourly shaping  *)
(*   SpecBackfill one backfill_* job over its plan of chunks               *)
(*   SpecRefresh  one daily_refresh job over its sources                   *)
(*   SpecConc     two upsert calls on one table, interleaved               *)
(*   SpecPager    one paging loop against every sequence of responses      *)
(*   SpecHourly   fetch_mta_hourly_by_borough followed by to_hourly_table  *)
(***************************************************************************)
EXTENDS Integers, Sequences, FiniteSets, TLC

VARIABLES
    table,      \* committed content of the target table: a set of rows
    stgTables,  \* committed staging tables (_stg_<table>_<uuid>): a set of row sets
    tx,         \* the open transaction of the running call (engine.begin())
    call,       \* the running loader call: its arguments and its position
    owner,      \* history: date -> value of the last successful batch holding it
    http,       \* the running _http_get call
    gen,        \* the running daterange_chunks generator
    plan,       \* the running fetch_mta_hourly_by_borough call: its sub-requests
    sch,        \* the running schema resolution of one fetch
    boro,       \* one borough string under canonicalization
    norm,       \* the running normalizer call: its input and output frames
    job,        \* the running backfill_* job
    refresh,    \* the running daily_refresh job
    conc,       \* two upsert calls running at the same time
    pager,      \* the running paging loop of one extractor
    hourly      \* the hourly frames on their way to fact_subway_hourly

more == <<refresh, conc, pager, hourly>>
ext == <<plan, sch, boro, norm, job, more>>
vars == <<table, stgTables, tx, call, owner, http, gen, ext>>
storeVars == <<table, stgTables, tx, call>>

\* a part of the pipeline that is not running
Off == [pc |-> "off"]
InitMoreOff == refresh = Off /\ conc = Off /\ pager = Off /\ hourly = Off
InitExtOff ==
    /\ plan = Off /\ sch = Off /\ boro = Off /\ norm = Off /\ job = Off
    /\ InitMoreOff

(***************************************************************************)
(* Bounds of the store model.                                              *)
(***************************************************************************)
\* the largest `days` argument of upsert_replace_recent_days that is tried
MaxDays == 1
\* the largest number of rows of a DataFrame that is tried
MaxBatch == 2

\* current_date of the database, as a day number; day 0 is older than every
\* window that is tried
Today == MaxDays + 1
Dates == 0..Today
\* the non-key column of a row (riders, tmax_f, event_count, ...)
Vals == {1, 2}
\* a row of a canonical table with natural key `date` (dim_weather_daily)
Rows == [date : Dates, v : Vals]
\* the DataFrames that are passed: None and the empty frame are {}
Frames == {df \in SUBSET Rows : Cardinality(df) <= MaxBatch}

Keys(rows) == {r.date : r \in rows}
\* no two rows of the set share the natural key
UniqueKeys(rows) == \A r1, r2 \in rows : r1.date = r2.date => r1 = r2

\* the columns of a DataFrame of a canonical table, and its primary key
Cols == {"date", "v"}
PKeyCols == {"date"}

(***************************************************************************)
(* upsert: the SQL it builds and what the statement does.                  *)
(***************************************************************************)
\* _normalize_pkey: None -> [], "date" -> ["date"]
NormalizePkey(pkey) == IF pkey THEN PKeyCols ELSE {}

\* the ON CONFLICT clause upsert attaches: "" without pkey, DO UPDATE SET for
\* the non-key columns of df, DO NOTHING when df has none
ConflictClause(pkey) ==
    LET pkeys == NormalizePkey(pkey)
        update_cols == Cols \ pkeys
    IN  IF pkeys = {} THEN "none"
        ELSE IF update_cols # {} THEN "do_update" ELSE "do_nothing"

\* The target tables carry a primary key on the natural key (schema.sql):
\* an INSERT without ON CONFLICT of a key that is present, or twice, fails.
UniqueViolation(target, staged) ==
    \/ Keys(staged) \cap Keys(target) # {}
    \/ ~UniqueKeys(staged)

\* INSERT ... SELECT ... FROM staging ON CONFLICT (pk) DO UPDATE fails when the
\* staging table holds the same key twice ("cannot affect row a second time")
CardinalityViolation(staged) == ~UniqueKeys(staged)

\* whether the INSERT statement of upsert raises
InsertFails(target, staged, pkey) ==
    CASE ConflictClause(pkey) = "none"       -> UniqueViolation(target, staged)
      [] ConflictClause(pkey) = "do_update"  -> CardinalityViolation(staged)
      [] ConflictClause(pkey) = "do_nothing" -> FALSE

\* a bug: rows are added without replacing the row of the same key
InsertSelectAppend(target, staged, pkey) == target \cup staged

\* a bug: ON CONFLICT adds the staged value to the stored one (the sum, capped
\* at the largest value of Vals)
InsertSelectAccumulate(target, staged, pkey) ==
    {r \in target : r.date \notin Keys(staged)}
      \cup {r \in staged : r.date \notin Keys(target)}
      \cup {[date |-> r.date, v |-> 2] : r \in {s \in staged : s.date \in Keys(target)}}

\* a bug: ON CONFLICT DO NOTHING, the first writer keeps the value
InsertSelectKeepOld(target, staged, pkey) ==
    target \cup {r \in staged : r.date \notin Keys(target)}

\* the target after a successful INSERT ... SELECT ... [ON CONFLICT ...]
InsertSelect(target, staged, pkey) ==
    CASE ConflictClause(pkey) = "none"       -> target \cup staged
      [] ConflictClause(pkey) = "do_update"  ->
            {r \in target : r.date \notin Keys(staged)} \cup staged
      [] ConflictClause(pkey) = "do_nothing" ->
            target \cup {r \in staged : r.date \notin Keys(target)}

(***************************************************************************)
(* The transaction of `with engine.begin() as conn:`.                      *)
(***************************************************************************)
NoTx == [open |-> FALSE, target |-> {}, stg |-> {}]
Begin(t) == [open |-> TRUE, target |-> t, stg |-> {}]

\* a bug: autocommit, every statement is visible as soon as it ran
RollbackKeepsWork(committed, working) == working

\* leaving the block by an exception rolls back: the committed content stays
Rollback(committed, working) == committed

\* leaving the block normally commits the work of the transaction
Commit(committed, working) == working

(***************************************************************************)
(* upsert_replace_recent_days: the DELETE it runs first.                   *)
(***************************************************************************)
\* a bug: the window ends one day later (date > current_date - days)
DeleteRecentStrict(target, days) == {r \in target : r.date <= Today - days}

\* DELETE FROM t WHERE date >= (current_date - interval '<days> days')
DeleteRecent(target, days) == {r \in target : ~(r.date >= Today - days)}

(***************************************************************************)
(* The loader calls.                                                       *)
(***************************************************************************)
Idle == [op |-> "none", df |-> {}, pkey |-> TRUE, days |-> 0, pc |-> "idle",
         pre |-> {}, upre |-> {}, rep |-> FALSE, at |-> "none", ret |-> -1]

InTx == {"stage", "merge", "drop", "commit"}

\* upsert(df, table, pkey): the early return, else the transaction is opened
CallUpsert(df, pkey) ==
    /\ call.pc = "idle"
    /\ IF df = {}
       THEN /\ call' = [Idle EXCEPT !.op = "upsert", !.pkey = pkey, !.pre = table,
                                    !.upre = table, !.pc = "returned", !.ret = 0]
            /\ UNCHANGED tx
       ELSE /\ call' = [Idle EXCEPT !.op = "upsert", !.df = df, !.pkey = pkey,
                                    !.pre = table, !.upre = table, !.pc = "stage"]
            /\ tx' = Begin(table)
    /\ UNCHANGED <<table, stgTables, owner, http, gen, ext>>

\* the same call is issued a second time, right after it returned
Repeat ==
    /\ call.pc = "returned"
    /\ call.op = "upsert"
    /\ ~call.rep
    /\ call.df # {}
    /\ call' = [call EXCEPT !.pc = "stage", !.rep = TRUE, !.upre = table,
                            !.ret = -1]
    /\ tx' = Begin(table)
    /\ UNCHANGED <<table, stgTables, owner, http, gen, ext>>

\* df.to_sql(tmp_table, if_exists="fail"): the staging table is created and filled
Stage ==
    /\ call.pc = "stage"
    /\ tx' = [tx EXCEPT !.stg = {call.df}]
    /\ call' = [call EXCEPT !.pc = "merge"]
    /\ UNCHANGED <<table, stgTables, owner, http, gen, ext>>

\* conn.exec_driver_sql(insert_sql)
Merge ==
    /\ call.pc = "merge"
    /\ ~InsertFails(tx.target, call.df, call.pkey)
    /\ tx' = [tx EXCEPT !.target = InsertSelect(tx.target, call.df, call.pkey)]
    /\ call' = [call EXCEPT !.pc = "drop"]
    /\ UNCHANGED <<table, stgTables, owner, http, gen, ext>>

\* conn.exec_driver_sql("DROP TABLE ...")
Drop ==
    /\ call.pc = "drop"
    /\ tx' = [tx EXCEPT !.stg = {}]
    /\ call' = [call EXCEPT !.pc = "commit"]
    /\ UNCHANGED <<table, stgTables, owner, http, gen, ext>>

\* the end of the with block commits; upsert returns len(df)
CommitTx ==
    /\ call.pc = "commit"
    /\ table' = Commit(table, tx.target)
    /\ stgTables' = Commit(stgTables, tx.stg)
    /\ tx' = NoTx
    /\ call' = [call EXCEPT !.pc = "returned", !.ret = Cardinality(call.df)]
    /\ UNCHANGED <<http, gen, ext>>

CommitUpsert == CommitTx /\ UNCHANGED owner

\* the same step with the history kept: every key of the batch is now owned
\* by this batch
CommitIngest ==
    /\ CommitTx
    /\ owner' = [d \in Dates |->
                   IF d \in Keys(call.df)
                   THEN (CHOOSE r \in call.df : r.date = d).v
                   ELSE owner[d]]

\* a statement of the transaction raises: the INSERT on a key conflict, any
\* statement (and the commit) on a database or connection error
Fail ==
    /\ call.pc \in InTx
    /\ table' = Rollback(table, tx.target)
    /\ stgTables' = Rollback(stgTables, tx.stg)
    /\ tx' = NoTx
    /\ call' = [call EXCEPT !.pc = "raised", !.at = call.pc]
    /\ UNCHANGED <<owner, http, gen, ext>>

\* a bug: no early return, the DELETE runs for an empty batch too
CallReplaceAlways(df, days, pkey) ==
    /\ call.pc = "idle"
    /\ call' = [Idle EXCEPT !.op = "replace", !.df = df, !.pkey = pkey,
                            !.days = days, !.pre = table, !.upre = table,
                            !.pc = "delete"]
    /\ tx' = Begin(table)
    /\ UNCHANGED <<table, stgTables, owner, http, gen, ext>>

\* upsert_replace_recent_days(df, table, days, pkey): the early return, else
\* the transaction of the DELETE is opened
CallReplace(df, days, pkey) ==
    /\ call.pc = "idle"
    /\ IF df = {}
       THEN /\ call' = [Idle EXCEPT !.op = "replace", !.pkey = pkey, !.days = days,
                                    !.pre = table, !.upre = table,
                                    !.pc = "returned", !.ret = 0]
            /\ UNCHANGED tx
       ELSE /\ call' = [Idle EXCEPT !.op = "replace", !.df = df, !.pkey = pkey,
                                    !.days = days, !.pre = table, !.upre = table,
                                    !.pc = "delete"]
            /\ tx' = Begin(table)
    /\ UNCHANGED <<table, stgTables, owner, http, gen, ext>>

\* the DELETE runs and its own transaction commits; then upsert(df, ...) is
\* called and opens the next transaction
Delete ==
    /\ call.pc = "delete"
    /\ LET t == Commit(table, DeleteRecent(tx.target, call.days))
       IN  /\ table' = t
           /\ tx' = Begin(t)
           /\ call' = [call EXCEPT !.pc = "stage", !.upre = t]
    /\ UNCHANGED <<stgTables, owner, http, gen, ext>>

\* the DELETE or its commit raises
FailDelete ==
    /\ call.pc = "delete"
    /\ table' = Rollback(table, tx.target)
    /\ tx' = NoTx
    /\ call' = [call EXCEPT !.pc = "raised", !.at = "delete"]
    /\ UNCHANGED <<stgTables, owner, http, gen, ext>>

\* the caller goes on after the call returned or raised
Finish ==
    /\ call.pc \in {"returned", "raised"}
    /\ call' = Idle
    /\ UNCHANGED <<table, stgTables, tx, owner, http, gen, ext>>

InitStore ==
    /\ table = {}
    /\ stgTables = {}
    /\ tx = NoTx
    /\ call = Idle

UpsertNext ==
    \/ \E df \in Frames, pkey \in BOOLEAN : CallUpsert(df, pkey)
    \/ Repeat
    \/ Stage
    \/ Merge
    \/ Drop
    \/ CommitUpsert
    \/ Fail
    \/ Finish

ReplaceNext ==
    \/ \E df \in Frames, days \in 1..MaxDays, pkey \in BOOLEAN :
          CallReplace(df, days, pkey)
    \/ Delete
    \/ FailDelete

InitOwner == owner = [d \in Dates |-> 0]
InitHttpOff == http = [pc |-> "off"]
InitGenOff == gen = [pc |-> "off"]

Init == InitStore /\ InitOwner /\ InitHttpOff /\ InitGenOff /\ InitExtOff

Next == UpsertNext \/ ReplaceNext

\* backfill: nothing but upsert calls, one batch after the other
IngestNext ==
    \/ \E df \in Frames, pkey \in BOOLEAN : CallUpsert(df, pkey)
    \/ Stage
    \/ Merge
    \/ Drop
    \/ CommitIngest
    \/ Fail
    \/ Finish

SpecIngest == Init /\ [][IngestNext]_vars

Spec == Init /\ [][Next]_vars

(***************************************************************************)
(* Properties of the loader.                                               *)
(***************************************************************************)
Ended == call.pc \in {"returned", "raised"}
\* the running call wrote its batch and returned
Wrote == call.pc = "returned" /\ call.df # {}

\* C1: Idempotence of upsert.  When upsert(batch, table, pkey) with a batch of
\* unique natural keys has returned and the same call is run again right
\* after, the table after the second run is the table after the first run.
C1_UpsertIdempotent ==
    (call.op = "upsert" /\ call.rep /\ Ended /\ UniqueKeys(call.df))
        => table = call.upre

\* the second run of a batch returned; the first run had overwritten a stored
\* row and inserted another
C1_Witness ==
    /\ call.op = "upsert" /\ call.rep /\ call.pc = "returned" /\ call.pkey
    /\ Keys(call.df) \cap Keys(call.pre) # {}
    /\ Keys(call.df) \ Keys(call.pre) # {}
    /\ call.upre # call.pre

\* C2: Key uniqueness.  In every reachable state, whatever upsert and
\* upsert_replace_recent_days calls returned or raised before, no two rows of
\* the committed target table share the natural key.
C2_KeyUniqueness == UniqueKeys(table)

\* a batch was merged over a stored row of the same key with another value
C2_Witness ==
    /\ Wrote
    /\ \E r \in call.df : \E q \in call.upre : q.date = r.date /\ q.v # r.v

\* C3: Merge result of one successful upsert.  The target afterwards is the
\* batch plus exactly the rows stored before whose key is not in the batch:
\* a key in both carries the batch's value, a key only in the batch is
\* inserted, a stored key absent from the batch is unchanged.
C3_MergeResult ==
    Wrote =>
        /\ table = call.df \cup {r \in call.upre : r.date \notin Keys(call.df)}
        /\ \A d \in Dates :
              /\ d \in Keys(call.df) =>
                    {r \in table : r.date = d} = {r \in call.df : r.date = d}
              /\ d \notin Keys(call.df) =>
                    {r \in table : r.date = d} = {r \in call.upre : r.date = d}

\* one upsert overwrote a stored value, inserted a new key and left a third
\* stored key alone
C3_Witness ==
    /\ Wrote /\ call.op = "upsert"
    /\ \E r \in call.df : \E q \in call.upre : q.date = r.date /\ q.v # r.v
    /\ Keys(call.df) \ Keys(call.upre) # {}
    /\ Keys(call.upre) \ Keys(call.df) # {}

\* C4: Atomicity of upsert.  While the stage+merge+drop transaction runs, and
\* when any of its steps (or its commit) failed, the committed target is the
\* table of before the call, no staging table is left, and the call raised
\* instead of returning a count.
C4_UpsertAtomic ==
    /\ call.pc \in InTx => table = call.upre /\ stgTables = {}
    /\ (call.pc = "raised" /\ call.at \in InTx) =>
            table = call.upre /\ stgTables = {} /\ call.ret = -1

\* the DROP (or the commit) failed after the INSERT had changed the target
C4_Witness ==
    /\ call.pc = "raised" /\ call.at \in {"drop", "commit"}
    /\ InsertSelect(call.upre, call.df, call.pkey) # call.upre

\* C5: Last successful writer owns the value (under SpecIngest).  After
\* any sequence of upsert batches a key is stored iff a successful batch held
\* it, with the value of the most recent such batch; a failed batch changes
\* nothing and no key has more than one row.
C5_LastWriterOwns ==
    /\ \A d \in Dates :
          {r.v : r \in {q \in table : q.date = d}} =
              IF owner[d] = 0 THEN {} ELSE {owner[d]}
    /\ UniqueKeys(table)
    /\ call.pc = "raised" => table = call.pre

\* a batch failed that held another value for a key owned by an earlier
\* successful batch, which had itself replaced a still earlier value
C5_Witness ==
    /\ call.pc = "raised" /\ call.at \in {"merge", "drop", "commit"}
    /\ UniqueKeys(call.df)
    /\ \E r \in call.df : owner[r.date] \notin {0, r.v}

\* the window of the claim: the trailing `days` dates D-days+1 .. D
ClaimedWindow(days) == (Today - days + 1)..Today
\* the dates the DELETE covers: D-days .. D
DeletedWindow(days) == (Today - days)..Today

\* C6 as claimed: with a batch covering D-days+1..D, a successful
\* upsert_replace_recent_days leaves every row dated D-days or earlier
\* untouched and makes the rows of D-days+1..D exactly the batch.
C6_AsClaimed ==
    (call.op = "replace" /\ Wrote /\ UniqueKeys(call.df)
        /\ Keys(call.df) = ClaimedWindow(call.days))
    => /\ {r \in table : r.date <= Today - call.days}
            = {r \in call.pre : r.date <= Today - call.days}
       /\ {r \in table : r.date \in ClaimedWindow(call.days)} = call.df

\* C6 amended: a successful upsert_replace_recent_days leaves the batch plus
\* exactly the rows stored before that are dated earlier than D-days and whose
\* key is not in the batch: the rows deleted are those dated D-days or later.
\* With a batch covering D-days..D the rows before D-days are untouched and
\* the rows of D-days..D are exactly the batch.
C6_ReplaceRecentResult ==
    (call.op = "replace" /\ Wrote) =>
        /\ table = call.df \cup {r \in call.pre :
                        r.date < Today - call.days /\ r.date \notin Keys(call.df)}
        /\ (UniqueKeys(call.df) /\ Keys(call.df) = DeletedWindow(call.days)) =>
              /\ {r \in table : r.date < Today - call.days}
                    = {r \in call.pre : r.date < Today - call.days}
              /\ {r \in table : r.date >= Today - call.days} = call.df

\* the table held a row at every date, the fresh batch covers D-days..D with
\* at least one changed value, and the call returned
C6_Witness ==
    /\ call.op = "replace" /\ Wrote
    /\ Keys(call.pre) = Dates
    /\ UniqueKeys(call.df) /\ Keys(call.df) = DeletedWindow(call.days)
    /\ ~(call.df \subseteq call.pre)

\* C7: Replace-recent-days is all-or-nothing.  When a call of
\* upsert_replace_recent_days raised, the committed table is the table of
\* before the call: the DELETE never stays without its stage+merge.
C7_ReplaceAllOrNothing ==
    (call.op = "replace" /\ call.pc = "raised") => table = call.pre

(***************************************************************************)
(* _http_get(url, params, headers, max_retries=3) of the three extractors. *)
(***************************************************************************)
\* the default of max_retries; no caller passes another value
DefaultMaxRetries == 3

\* the extractor whose _http_get runs
Impls == {"mta_daily", "events_daily", "noaa_daily"}

\* r.status_code of the response that requests.get returns; NetErr stands for
\* requests.get raising (timeout, connection error)
NetErr == 0
Statuses == {200, 204, 304, 400, 404, 429, 500, 501, 502, 503, 504}
Responses == Statuses \cup {NetErr}

\* `r.status_code in (429, 500, 502, 503, 504)`
Transient == {429, 500, 502, 503, 504}
Is2xx(status) == status >= 200 /\ status < 300

\* requests.Response.raise_for_status raises for 4xx and 5xx only
RaiseForStatus(status) == status >= 400 /\ status < 600

\* the last statement of the loop body, reached with a status that is neither
\* 200 nor transient: mta_daily raises HTTPError itself, events_daily and
\* noaa_daily call r.raise_for_status()
OtherStatusRaises(impl, status) ==
    IF impl = "mta_daily" THEN TRUE ELSE RaiseForStatus(status)

\* a bug: range(1, max_retries + 2)
LastAttemptOneMore(max_retries) == max_retries + 1

\* the last value of `attempt` in `for attempt in range(1, max_retries + 1)`
LastAttempt(max_retries) == max_retries

\* time.sleep(1.5 * attempt), in half seconds
Backoff(attempt) == 3 * attempt

HttpStart(impl, max_retries) ==
    [impl |-> impl, max_retries |-> max_retries,
     pc |-> IF 1 <= LastAttempt(max_retries) THEN "loop" ELSE "final",
     attempt |-> 1, requests |-> 0, slept |-> 0, last |-> NetErr,
     allTransient |-> TRUE, exc |-> "none"]

\* what a request and its answer leave in the record
Got(resp) ==
    [http EXCEPT !.requests = @ + 1, !.last = resp,
                 !.allTransient = @ /\ resp \in Transient]

\* one iteration of the for loop: the request and the handling of its answer
HttpAttempt(resp, parses) ==
    /\ http.pc = "loop"
    /\ http' =
         IF resp = NetErr
         THEN [Got(resp) EXCEPT !.pc = "raised", !.exc = "RequestException"]
         ELSE IF resp = 200
         THEN IF parses THEN [Got(resp) EXCEPT !.pc = "returned"]
              ELSE [Got(resp) EXCEPT !.pc = "raised", !.exc = "JSONDecodeError"]
         ELSE IF resp \in Transient \/ ~OtherStatusRaises(http.impl, resp)
         THEN [Got(resp) EXCEPT
                 !.slept = IF resp \in Transient THEN @ + Backoff(http.attempt) ELSE @,
                 !.attempt = @ + 1,
                 !.pc = IF http.attempt + 1 <= LastAttempt(http.max_retries)
                        THEN "loop" ELSE "final"]
         ELSE [Got(resp) EXCEPT !.pc = "raised", !.exc = "HTTPError"]
    /\ UNCHANGED <<table, stgTables, tx, call, owner, gen, ext>>

\* the final attempt after the loop: r.raise_for_status(); return r.json()
HttpFinal(resp, parses) ==
    /\ http.pc = "final"
    /\ http' =
         IF resp = NetErr
         THEN [Got(resp) EXCEPT !.pc = "raised", !.exc = "RequestException"]
         ELSE IF RaiseForStatus(resp)
         THEN [Got(resp) EXCEPT !.pc = "raised", !.exc = "HTTPError"]
         ELSE IF parses THEN [Got(resp) EXCEPT !.pc = "returned"]
         ELSE [Got(resp) EXCEPT !.pc = "raised", !.exc = "JSONDecodeError"]
    /\ UNCHANGED <<table, stgTables, tx, call, owner, gen, ext>>

InitHttp ==
    http \in {HttpStart(impl, m) : impl \in Impls, m \in 0..DefaultMaxRetries}

HttpNext ==
    \/ \E resp \in Responses, parses \in BOOLEAN : HttpAttempt(resp, parses)
    \/ \E resp \in Responses, parses \in BOOLEAN : HttpFinal(resp, parses)

HttpInit == InitStore /\ InitOwner /\ InitHttp /\ InitGenOff /\ InitExtOff

SpecHttp == HttpInit /\ [][HttpNext]_vars

\* C8: Retry bound.  No call issues more than max_retries + 1 requests; while
\* every response so far had a transient status the call has not returned a
\* value and request number k is made at attempt k, and when it ends it has
\* raised after exactly max_retries + 1 requests.
C8_RetryBound ==
    /\ http.requests <= http.max_retries + 1
    /\ http.allTransient =>
          /\ http.pc # "returned"
          /\ http.pc \in {"loop", "final"} => http.requests = http.attempt - 1
          /\ http.pc = "raised" =>
                http.requests = http.max_retries + 1 /\ http.exc = "HTTPError"

\* three retried attempts and the final one were all answered 503, and the
\* call raised
C8_Witness ==
    /\ http.pc = "raised" /\ http.allTransient /\ http.last = 503
    /\ http.max_retries = DefaultMaxRetries
    /\ http.requests = DefaultMaxRetries + 1

\* C9: Non-transient failure is immediate.  In each _http_get, once a response
\* has a status that is neither 2xx nor transient, the call has raised at that
\* attempt (it neither goes on to another request nor returns).
C9_NonTransientImmediate ==
    (http.requests > 0 /\ http.last # NetErr /\ ~Is2xx(http.last)
        /\ http.last \notin Transient)
    => http.pc = "raised"

(***************************************************************************)
(* daterange_chunks(start_str, end_str, chunk_days) of scripts/backfill.py *)
(***************************************************************************)
\* Bounds: the requested dates lie in a window of MaxSpan + 1 days, and
\* chunk_days runs from 0 to MaxChunkDays.
MaxSpan == 5
MaxChunkDays == 3

\* An ISO date string "YYYY-MM-DD" is the tuple <<YYYY, MM, DD>>; a
\* datetime.date is its proleptic Gregorian ordinal (date.toordinal()).
IsLeap(y) == (y % 4 = 0 /\ y % 100 # 0) \/ y % 400 = 0

DaysInMonth(y, m) ==
    IF m = 2 THEN (IF IsLeap(y) THEN 29 ELSE 28)
    ELSE IF m \in {4, 6, 9, 11} THEN 30 ELSE 31

DaysBeforeYear(y) ==
    LET p == y - 1 IN p * 365 + (p \div 4) - (p \div 100) + (p \div 400)

RECURSIVE DaysBeforeMonth(_, _)
DaysBeforeMonth(y, m) ==
    IF m = 1 THEN 0 ELSE DaysBeforeMonth(y, m - 1) + DaysInMonth(y, m - 1)

\* date.fromisoformat(s)
FromIso(s) == DaysBeforeYear(s[1]) + DaysBeforeMonth(s[1], s[2]) + s[3]

\* the years the dates of the model fall in
Years == 2023..2026

\* d.isoformat()
IsoFormat(n) ==
    LET y == CHOOSE yy \in Years :
                 DaysBeforeYear(yy) < n /\ n <= DaysBeforeYear(yy + 1)
        r == n - DaysBeforeYear(y)
        m == CHOOSE mm \in 1..12 :
                 DaysBeforeMonth(y, mm) < r
                    /\ r <= DaysBeforeMonth(y, mm) + DaysInMonth(y, mm)
    IN  <<y, m, r - DaysBeforeMonth(y, m)>>

\* the first day of the window the requests are drawn from: it spans the turn
\* of the year 2024/2025
FirstDay == <<2024, 12, 29>>
IsoDates == {IsoFormat(FromIso(FirstDay) + k) : k \in 0..MaxSpan}

\* the generator is stopped when it has yielded this many chunks; a run with
\* chunk_days >= 1 ends before
MaxYield == MaxSpan + 2

Min(a, b) == IF a <= b THEN a ELSE b

\* a bug: the last chunk is not clipped to the end date
ChunkEndUnclipped(d, chunk_days, e) == d + (chunk_days - 1)

\* chunk_end = min(d + timedelta(days=chunk_days-1), e)
ChunkEnd(d, chunk_days, e) == Min(d + (chunk_days - 1), e)

GenStart(start_str, end_str, chunk_days) ==
    [pc |-> "run", start |-> start_str, end |-> end_str,
     chunk_days |-> chunk_days,
     d |-> FromIso(start_str), e |-> FromIso(end_str), out |-> <<>>]

\* `while d <= e:` holds: the next chunk is yielded and d moves behind it
GenYield ==
    /\ gen.pc = "run"
    /\ gen.d <= gen.e
    /\ Len(gen.out) < MaxYield
    /\ LET chunk_end == ChunkEnd(gen.d, gen.chunk_days, gen.e)
       IN  gen' = [gen EXCEPT
                     !.out = Append(@, <<IsoFormat(gen.d), IsoFormat(chunk_end)>>),
                     !.d = chunk_end + 1]
    /\ UNCHANGED <<table, stgTables, tx, call, owner, http, ext>>

\* `while d <= e:` fails: the generator is exhausted
GenStop ==
    /\ gen.pc = "run"
    /\ ~(gen.d <= gen.e)
    /\ gen' = [gen EXCEPT !.pc = "done"]
    /\ UNCHANGED <<table, stgTables, tx, call, owner, http, ext>>

InitGen ==
    gen \in {GenStart(s, e, c) : s \in IsoDates, e \in IsoDates,
                                  c \in 0..MaxChunkDays}

ChunksInit == InitStore /\ InitOwner /\ InitHttpOff /\ InitGen /\ InitExtOff

ChunksNext == GenYield \/ GenStop

SpecChunks == ChunksInit /\ [][ChunksNext]_vars

\* the dates of the chunks yielded so far
Covered == UNION {FromIso(gen.out[i][1])..FromIso(gen.out[i][2]) :
                    i \in 1..Len(gen.out)}

\* C10: Windowing completeness.  For every start, end and chunk_days >= 1 the
\* chunks yielded are ascending and adjacent (the first starts at start, each
\* next one the day after the previous end), each spans 1..chunk_days days and
\* none passes end; when the generator is exhausted their dates are exactly
\* the dates d with start <= d <= end, and no chunk at all when start > end.
C10_WindowingComplete ==
    gen.chunk_days >= 1 =>
        /\ gen.out # <<>> => gen.out[1][1] = gen.start
        /\ \A i \in 1..Len(gen.out) :
              LET a == FromIso(gen.out[i][1])
                  b == FromIso(gen.out[i][2])
              IN  /\ a <= b
                  /\ b - a + 1 <= gen.chunk_days
                  /\ b <= FromIso(gen.end)
                  /\ i > 1 => a = FromIso(gen.out[i - 1][2]) + 1
        /\ gen.pc = "done" =>
              /\ Covered = FromIso(gen.start)..FromIso(gen.end)
              /\ FromIso(gen.start) > FromIso(gen.end) => gen.out = <<>>

\* an exhausted plan of three chunks from 2024 into 2025 whose last chunk is
\* shorter than chunk_days
C10_Witness ==
    /\ gen.pc = "done" /\ gen.chunk_days = 2 /\ Len(gen.out) = 3
    /\ gen.out[1][1][1] = 2024 /\ gen.out[3][2][1] = 2025
    /\ gen.out[3][1] = gen.out[3][2]

DATASETS ==
    << <<"wujg-7c2s", <<2020, 1, 1>>, <<2024, 12, 31>>>>,
       <<"5wq4-mkjj", <<2025, 1, 1>>, <<2100, 1, 1>>>> >>

\* a <= b on two strings "YYYY-MM-DD": the first field that differs decides
StrLeq(a, b) ==
    \/ a[1] < b[1]
    \/ a[1] = b[1] /\ a[2] < b[2]
    \/ a[1] = b[1] /\ a[2] = b[2] /\ a[3] <= b[3]

\* a bug: the sub-request starts at the requested start, not clipped to the
\* epoch
EpochStartUnclipped(start_date, ds_start) == start_date

\* s = max(start_date, ds_start): Python's max of two strings
EpochStart(start_date, ds_start) ==
    IF StrLeq(start_date, ds_start) /\ start_date # ds_start THEN ds_start
    ELSE start_date

\* e = min(end_date, ds_end): Python's min of two strings
EpochEnd(end_date, ds_end) ==
    IF StrLeq(ds_end, end_date) /\ end_date # ds_end THEN ds_end
    ELSE end_date

\* the start_date and end_date of the calls: days before, at and after the
\* first and last day of each epoch
PlanDates ==
    {<<2019, 12, 31>>, <<2020, 1, 1>>, <<2024, 12, 20>>, <<2024, 12, 31>>,
     <<2025, 1, 1>>, <<2025, 1, 10>>, <<2100, 1, 1>>, <<2100, 1, 2>>}

\* one turn of `for url_base, ds_start, ds_end in DATASETS` with an overlap:
\* _fetch_raw(url_base, s, e, headers) is called
EpochFetch ==
    /\ plan.pc = "run"
    /\ plan.i <= Len(DATASETS)
    /\ LET ds == DATASETS[plan.i]
           s == EpochStart(plan.start, ds[2])
           e == EpochEnd(plan.end, ds[3])
       IN  /\ ~(StrLeq(e, s) /\ s # e)
           /\ plan' = [plan EXCEPT !.i = @ + 1,
                                   !.reqs = Append(@, <<ds[1], s, e>>)]
    /\ UNCHANGED <<table, stgTables, tx, call, owner, http, gen,
                    sch, boro, norm, job, more>>

\* one turn with `if s > e: continue`
EpochSkip ==
    /\ plan.pc = "run"
    /\ plan.i <= Len(DATASETS)
    /\ LET ds == DATASETS[plan.i]
           s == EpochStart(plan.start, ds[2])
           e == EpochEnd(plan.end, ds[3])
       IN  StrLeq(e, s) /\ s # e
    /\ plan' = [plan EXCEPT !.i = @ + 1]
    /\ UNCHANGED <<table, stgTables, tx, call, owner, http, gen,
                    sch, boro, norm, job, more>>

\* the loop over DATASETS is over
PlanDone ==
    /\ plan.pc = "run"
    /\ plan.i > Len(DATASETS)
    /\ plan' = [plan EXCEPT !.pc = "done"]
    /\ UNCHANGED <<table, stgTables, tx, call, owner, http, gen,
                    sch, boro, norm, job, more>>

PlanInit ==
    /\ InitStore /\ InitOwner /\ InitHttpOff /\ InitGenOff
    /\ sch = Off /\ boro = Off /\ norm = Off /\ job = Off /\ InitMoreOff
    /\ \E s \in PlanDates, e \in PlanDates :
          plan = [pc |-> "run", start |-> s, end |-> e, i |-> 1, reqs |-> <<>>]

SpecPlan == PlanInit /\ [][EpochFetch \/ EpochSkip \/ PlanDone]_vars

\* the days of the request that epoch k covers
EpochDays(k) ==
    {d \in FromIso(plan.start)..FromIso(plan.end) :
        FromIso(DATASETS[k][2]) <= d /\ d <= FromIso(DATASETS[k][3])}

\* the sub-requests issued for epoch k
ReqsOf(k) ==
    {j \in 1..Len(plan.reqs) : plan.reqs[j][1] = DATASETS[k][1]}

\* C12: Epoch intersection.  For every requested [start, end] there is one
\* sub-request per dataset epoch that covers a day of the request, its days
\* are exactly the days of the request inside the epoch,
\* [max(start, epochStart), min(end, epochEnd)], an epoch covering no day of
\* the request gets none, and the sub-requests are pairwise disjoint; the
\* request [2024-12-20, 2025-01-10] yields exactly [2024-12-20, 2024-12-31]
\* on the first dataset and [2025-01-01, 2025-01-10] on the second.
C12_EpochIntersection ==
    plan.pc = "done" =>
        /\ \A k \in 1..Len(DATASETS) :
              /\ EpochDays(k) = {} => ReqsOf(k) = {}
              /\ EpochDays(k) # {} =>
                    /\ Cardinality(ReqsOf(k)) = 1
                    /\ \A j \in ReqsOf(k) :
                          FromIso(plan.reqs[j][2])..FromIso(plan.reqs[j][3])
                              = EpochDays(k)
        /\ \A j1, j2 \in 1..Len(plan.reqs) :
              j1 < j2 => FromIso(plan.reqs[j1][3]) < FromIso(plan.reqs[j2][2])
        /\ plan.start = <<2024, 12, 20>> /\ plan.end = <<2025, 1, 10>> =>
              plan.reqs = << <<"wujg-7c2s", <<2024, 12, 20>>, <<2024, 12, 31>>>>,
                             <<"5wq4-mkjj", <<2025, 1, 1>>, <<2025, 1, 10>>>> >>

\* the request [2024-12-20, 2025-01-10] has been planned: two sub-requests
C12_Witness ==
    /\ plan.pc = "done"
    /\ plan.start = <<2024, 12, 20>> /\ plan.end = <<2025, 1, 10>>
    /\ Len(plan.reqs) = 2

(***************************************************************************)
(* Strings of Python: str.lower, str.upper, str.title, str.strip, `in`     *)
(***************************************************************************)

LowerLetters == "abcdefghijklmnopqrstuvwxyz"
UpperLetters == "ABCDEFGHIJKLMNOPQRSTUVWXYZ"

\* the position of the one-letter string c in letters, 0 when it is not there
IndexIn(c, letters) ==
    IF \E i \in 1..Len(letters) : SubSeq(letters, i, i) = c
    THEN CHOOSE i \in 1..Len(letters) : SubSeq(letters, i, i) = c
    ELSE 0

LowerChar(c) ==
    LET i == IndexIn(c, UpperLetters)
    IN  IF i > 0 THEN SubSeq(LowerLetters, i, i) ELSE c

UpperChar(c) ==
    LET i == IndexIn(c, LowerLetters)
    IN  IF i > 0 THEN SubSeq(UpperLetters, i, i) ELSE c

\* s.lower()
RECURSIVE Lower(_)
Lower(s) ==
    IF Len(s) = 0 THEN ""
    ELSE LowerChar(SubSeq(s, 1, 1)) \o Lower(SubSeq(s, 2, Len(s)))

\* s.upper()
RECURSIVE Upper(_)
Upper(s) ==
    IF Len(s) = 0 THEN ""
    ELSE UpperChar(SubSeq(s, 1, 1)) \o Upper(SubSeq(s, 2, Len(s)))

\* s.title() from position i on (s.title() is TitleFrom(s, 1)): a letter
\* that follows no letter is upper-cased, every other letter lower-cased
RECURSIVE TitleFrom(_, _)
TitleFrom(s, i) ==
    IF i > Len(s) THEN ""
    ELSE LET c == SubSeq(s, i, i)
             p == SubSeq(s, i - 1, i - 1)
             first == \/ i = 1
                      \/ IndexIn(p, LowerLetters) = 0 /\ IndexIn(p, UpperLetters) = 0
         IN  (IF first THEN UpperChar(c) ELSE LowerChar(c))
                 \o TitleFrom(s, i + 1)

\* s.strip(), for the white space " "
RECURSIVE Strip(_)
Strip(s) ==
    IF Len(s) = 0 THEN ""
    ELSE IF SubSeq(s, 1, 1) = " " THEN Strip(SubSeq(s, 2, Len(s)))
    ELSE IF SubSeq(s, Len(s), Len(s)) = " " THEN Strip(SubSeq(s, 1, Len(s) - 1))
    ELSE s

\* k in s
Contains(k, s) ==
    \E i \in 1..(Len(s) - Len(k) + 1) : SubSeq(s, i, i + Len(k) - 1) = k

Range(seq) == {seq[i] : i \in 1..Len(seq)}

(***************************************************************************)
(* Schema resolution: _pick of the three Socrata extractors                *)
(* (src/src/extract/{events_daily,mta_daily,mta_hourly}.py) and what each  *)
(* fetch does with the columns it resolved                                 *)
(***************************************************************************)

\* the live columns of one fetch are at most this many
MaxCols == 3

Families == {"events_daily", "mta_daily", "mta_hourly"}

\* the value None of Python
None == "<None>"

\* `not x` on an Optional[str]
Falsy(x) == x = None \/ x = ""

\* events_daily.py
PREFERRED_DATE_COLS ==
    <<"startdatetime", "start_date", "event_date", "begin_date", "starttime",
      "date">>
BORO_CANDS ==
    <<"borough", "event_borough", "borough_name", "boroname", "borocode",
      "borough_desc", "boroughdescription">>

\* mta_daily.py
SUBWAY_CANDS ==
    <<"subways_total_estimated_ridership", "subway_total_estimated_ridership",
      "subways", "subway_ridership">>
BUS_CANDS ==
    <<"buses_total_estimated_ridership", "buses_total_ridership", "buses",
      "bus_ridership">>
DATE_CANDS == <<"date", "as_of", "report_date">>
LONG_VALUE_CANDS == <<"riders", "ridership", "count", "value", "total">>

\* mta_hourly.py
TS_CANDS ==
    <<"transit_timestamp", "timestamp", "datetime", "date_time", "time", "dt">>
HOURLY_BORO_CANDS ==
    <<"borough", "borough_name", "boroname", "complex_borough",
      "station_complex_borough", "station_borough", "boroughdesc",
      "borough_desc", "boro">>
RID_CANDS ==
    <<"ridership", "rides", "entries", "count", "total", "ridership_total",
      "total_ridership", "ridership_estimate", "ridership_count", "value">>

\* the candidate lists each family resolves
CandsOf(family) ==
    CASE family = "events_daily" -> {PREFERRED_DATE_COLS, BORO_CANDS}
      [] family = "mta_daily" ->
            {SUBWAY_CANDS, BUS_CANDS, DATE_CANDS, LONG_VALUE_CANDS}
      [] family = "mta_hourly" -> {TS_CANDS, HOURLY_BORO_CANDS, RID_CANDS}

\* `for c in cands: if c in cols: return c`, from candidate i on
RECURSIVE FirstExact(_, _, _)
FirstExact(cands, cols, i) ==
    IF i > Len(cands) THEN None
    ELSE IF cands[i] \in Range(cols) THEN cands[i]
    ELSE FirstExact(cands, cols, i + 1)

\* `for c in cols: lc = c.lower(); for k in cands: if k in lc: return c`,
\* from column j on
RECURSIVE FirstFuzzy(_, _, _)
FirstFuzzy(cands, cols, j) ==
    IF j > Len(cols) THEN None
    ELSE LET lc == Lower(cols[j])
         IN  IF \E k \in 1..Len(cands) : Contains(cands[k], lc) THEN cols[j]
             ELSE FirstFuzzy(cands, cols, j + 1)

\* _pick of events_daily.py
PickLoose(cands, cols) ==
    LET c == FirstExact(cands, cols, 1)
    IN  IF c # None THEN c ELSE FirstFuzzy(cands, cols, 1)

\* a change: every family falls back to the substring match
PickLooseAll(family, cands, cols) == PickLoose(cands, cols)

\* the _pick of the family: the one of mta_daily.py and of mta_hourly.py
\* matches exactly only
Pick(family, cands, cols) ==
    IF family = "events_daily" THEN PickLoose(cands, cols)
    ELSE FirstExact(cands, cols, 1)

\* the column names the live schemas are made of: exact candidates of each
\* concept, names that only contain a candidate, and a name that is none
ColNames ==
    {"date", "start_date", "Event_Date", "mode", "count", "subways", "buses",
     "transit_timestamp", "borough", "Event_Borough"}

\* the keys of a JSON record: distinct names in some order
Schemas ==
    {cols \in UNION {[1..n -> ColNames] : n \in 0..MaxCols} :
        \A i, j \in 1..Len(cols) : i # j => cols[i] # cols[j]}

\* one call _pick(cands, cols)
PickCall ==
    /\ sch.pc = "pick"
    /\ sch' = [sch EXCEPT !.pc = "picked",
                          !.ret = Pick(sch.family, sch.cands, sch.cols)]
    /\ UNCHANGED <<table, stgTables, tx, call, owner, http, gen,
                    plan, boro, norm, job, more>>

\* a change: an unresolved timestamp or ridership column raises
ShapeOutcomeFatal(ts_col, rid_col, bor_col) ==
    IF Falsy(ts_col) \/ Falsy(rid_col) THEN "error"
    ELSE IF Falsy(bor_col) THEN "empty" ELSE "rows"

\* _shape_and_aggregate: `if not ts_col or not rid_col or not bor_col:
\* return` the empty frame
ShapeOutcome(ts_col, rid_col, bor_col) ==
    IF Falsy(ts_col) \/ Falsy(rid_col) \/ Falsy(bor_col) THEN "empty"
    ELSE "rows"

\* _shape_and_aggregate on raw rows that are not empty, whose time stamps
\* parse and lie in the window
FetchHourly ==
    /\ sch.pc = "fetch" /\ sch.family = "mta_hourly"
    /\ LET cols == sch.cols
           ts_col == Pick("mta_hourly", TS_CANDS, cols)
           picked == Pick("mta_hourly", HOURLY_BORO_CANDS, cols)
           bor_col == IF Falsy(picked) THEN FirstFuzzy(<<"boro", "borough">>, cols, 1)
                      ELSE picked
           rid_col == Pick("mta_hourly", RID_CANDS, cols)
           res == ShapeOutcome(ts_col, rid_col, bor_col)
       IN  sch' = [sch EXCEPT !.pc = "fetched", !.outcome = res,
                     !.by = IF res = "rows" THEN bor_col ELSE None]
    /\ UNCHANGED <<table, stgTables, tx, call, owner, http, gen,
                    plan, boro, norm, job, more>>

\* fetch_mta_daily on records that are not empty
FetchDaily ==
    /\ sch.pc = "fetch" /\ sch.family = "mta_daily"
    /\ LET cols == sch.cols
           picked == Pick("mta_daily", DATE_CANDS, cols)
           date_col == IF Falsy(picked) THEN "date" ELSE picked
           val_col == Pick("mta_daily", LONG_VALUE_CANDS, cols)
           sub_col == Pick("mta_daily", SUBWAY_CANDS, cols)
           bus_col == Pick("mta_daily", BUS_CANDS, cols)
           res == IF date_col \notin Range(cols) THEN "error"
                  ELSE IF "mode" \in Range(cols)
                       THEN IF val_col = None THEN "error" ELSE "rows"
                  ELSE IF ~Falsy(sub_col) /\ ~Falsy(bus_col) THEN "rows"
                  ELSE "error"
       IN  sch' = [sch EXCEPT !.pc = "fetched", !.outcome = res]
    /\ UNCHANGED <<table, stgTables, tx, call, owner, http, gen,
                    plan, boro, norm, job, more>>

\* _fetch_events on rows that are not empty, whose dates parse and lie in the
\* window and whose borough values, when a borough column is resolved, are
\* known
FetchEvents ==
    /\ sch.pc = "fetch" /\ sch.family = "events_daily"
    /\ LET cols == sch.cols
           picked == Pick("events_daily", PREFERRED_DATE_COLS, cols)
           boro_col == Pick("events_daily", BORO_CANDS, cols)
           date_col == IF Falsy(picked) THEN FirstFuzzy(<<"date">>, cols, 1)
                       ELSE picked
           alt == {a \in {"start_date", "startdatetime", "event_date", "date"} :
                      a \in Range(cols)}
           res == IF Falsy(date_col) /\ alt = {} THEN "empty"
                  ELSE IF Falsy(boro_col) THEN "empty"
                  ELSE "rows"
       IN  sch' = [sch EXCEPT !.pc = "fetched", !.outcome = res,
                     !.by = IF res = "rows" THEN boro_col ELSE None]
    /\ UNCHANGED <<table, stgTables, tx, call, owner, http, gen,
                    plan, boro, norm, job, more>>

SchemaInit ==
    /\ InitStore /\ InitOwner /\ InitHttpOff /\ InitGenOff
    /\ plan = Off /\ boro = Off /\ norm = Off /\ job = Off /\ InitMoreOff
    /\ \E f \in Families, cols \in Schemas :
           \/ \E c \in CandsOf(f) :
                 sch = [pc |-> "pick", family |-> f, cands |-> c, cols |-> cols,
                        ret |-> None, outcome |-> "", by |-> None]
           \/ sch = [pc |-> "fetch", family |-> f, cands |-> <<>>, cols |-> cols,
                     ret |-> None, outcome |-> "", by |-> None]

SpecSchema == SchemaInit /\ [][PickCall \/ FetchHourly \/ FetchDaily \/ FetchEvents]_vars

\* the candidates that are live columns, and the live columns whose
\* lower-cased name contains a candidate
ExactHits(cands, cols) == {k \in 1..Len(cands) : cands[k] \in Range(cols)}
FuzzyHits(cands, cols) ==
    {j \in 1..Len(cols) :
        LET lc == Lower(cols[j])
        IN  \E k \in 1..Len(cands) : Contains(cands[k], lc)}
Least(S) == CHOOSE n \in S : \A m \in S : n <= m

\* C13 as claimed: in every family _pick returns the earliest candidate that
\* exactly equals a live column; if none does, a live column whose lower-cased
\* name contains a candidate; None only if neither exists.
C13_AsClaimed ==
    sch.pc = "picked" =>
        LET ex == ExactHits(sch.cands, sch.cols)
            fz == FuzzyHits(sch.cands, sch.cols)
        IN  /\ ex # {} => sch.ret = sch.cands[Least(ex)]
            /\ ex = {} /\ fz # {} => sch.ret \in {sch.cols[j] : j \in fz}
            /\ ex = {} /\ fz = {} => sch.ret = None

\* C13: Schema resolution.  In every family _pick returns the earliest
\* candidate that exactly equals a live column.  If none does, _pick of
\* events_daily returns the first live column, in column order, whose
\* lower-cased name contains a candidate, and None if there is none; _pick of
\* mta_daily and of mta_hourly returns None without a substring match.
C13_PickResult ==
    sch.pc = "picked" =>
        LET ex == ExactHits(sch.cands, sch.cols)
            fz == FuzzyHits(sch.cands, sch.cols)
        IN  /\ ex # {} => sch.ret = sch.cands[Least(ex)]
            /\ ex = {} /\ fz # {} /\ sch.family = "events_daily" =>
                  sch.ret = sch.cols[Least(fz)]
            /\ ex = {} /\ (fz = {} \/ sch.family # "events_daily") =>
                  sch.ret = None

\* _pick of mta_hourly has returned None although a live column contains a
\* candidate
C13_Witness ==
    /\ sch.pc = "picked" /\ sch.family = "mta_hourly"
    /\ sch.cands = HOURLY_BORO_CANDS
    /\ sch.cols = <<"transit_timestamp", "Event_Borough", "count">>
    /\ sch.ret = None

\* a required concept of the family (time stamp or date, metric value) matches
\* no live column
RequiredUnresolved(family, cols) ==
    CASE family = "mta_hourly" ->
            ExactHits(TS_CANDS, cols) = {} \/ ExactHits(RID_CANDS, cols) = {}
      [] family = "mta_daily" ->
            \/ ExactHits(DATE_CANDS, cols) = {}
            \/ IF "mode" \in Range(cols)
               THEN ExactHits(LONG_VALUE_CANDS, cols) = {}
               ELSE \/ ExactHits(SUBWAY_CANDS, cols) = {}
                    \/ ExactHits(BUS_CANDS, cols) = {}
      [] family = "events_daily" ->
            /\ ExactHits(PREFERRED_DATE_COLS, cols) = {}
            /\ FuzzyHits(PREFERRED_DATE_COLS, cols) = {}

\* the borough concept of the family matches no live column (mta_daily has
\* no borough)
BoroughUnresolved(family, cols) ==
    CASE family = "mta_hourly" ->
            /\ ExactHits(HOURLY_BORO_CANDS, cols) = {}
            /\ FuzzyHits(<<"boro", "borough">>, cols) = {}
      [] family = "mta_daily" -> FALSE
      [] family = "events_daily" ->
            /\ ExactHits(BORO_CANDS, cols) = {}
            /\ FuzzyHits(BORO_CANDS, cols) = {}

VALID_BOROUGHS == {"Bronx", "Brooklyn", "Manhattan", "Queens", "Staten Island"}

BORO_MAP ==
    [k \in {"MN", "MANHATTAN", "BX", "BRONX", "BK", "BKLN", "BROOKLYN", "QN",
            "QUEENS", "SI", "S.I.", "STATEN ISLAND", "STATENISLAND"} |->
        CASE k \in {"MN", "MANHATTAN"} -> "Manhattan"
          [] k \in {"BX", "BRONX"} -> "Bronx"
          [] k \in {"BK", "BKLN", "BROOKLYN"} -> "Brooklyn"
          [] k \in {"QN", "QUEENS"} -> "Queens"
          [] OTHER -> "Staten Island"]

\* a missing value of pandas (NaN, NA)
NA == "<NA>"

\* the normalizers that canonicalize a borough
BoroughFns == {"to_hourly_table", "to_events_table", "_normalize_borough"}

\* a bug: the map is looked up without upper-casing
MapBoroughAsIs(s) ==
    IF s \in DOMAIN BORO_MAP THEN BORO_MAP[s] ELSE TitleFrom(s, 1)

\* BORO_MAP.get(s.upper(), s.title())
MapBorough(s) ==
    IF Upper(s) \in DOMAIN BORO_MAP THEN BORO_MAP[Upper(s)] ELSE TitleFrom(s, 1)

\* astype(str).str.strip(), the map, b.where(b.isin(VALID_BOROUGHS))
CanonBorough(raw) ==
    LET b == MapBorough(Strip(raw))
    IN  IF b \in VALID_BOROUGHS THEN b ELSE NA

\* s in every letter case
RECURSIVE CaseVariants(_)
CaseVariants(s) ==
    IF Len(s) = 0 THEN {""}
    ELSE LET c == SubSeq(s, 1, 1)
         IN  {h \o t : h \in {LowerChar(c), UpperChar(c)},
                       t \in CaseVariants(SubSeq(s, 2, Len(s)))}

\* the raw borough values: every code and name of the map and every label in
\* every letter case, some of them padded with blanks, and values that are no
\* borough (str(None) and str(nan) among them)
RawBoroughs ==
    LET known == UNION {CaseVariants(k) : k \in DOMAIN BORO_MAP}
        padded == UNION {{" " \o k, k \o " ", "  " \o k \o " "} :
                            k \in DOMAIN BORO_MAP \cup VALID_BOROUGHS}
        other == CaseVariants("Nassau")
                    \cup {"", " ", "None", "nan", "New York", "Staten  Island",
                          "The Bronx", "B K", "Kings"}
    IN  known \cup padded \cup other

\* the normalizer canonicalizes the borough of one row
Canonicalize ==
    /\ boro.pc = "raw"
    /\ boro' = [boro EXCEPT !.pc = "done", !.out = CanonBorough(boro.raw)]
    /\ UNCHANGED <<table, stgTables, tx, call, owner, http, gen,
                    plan, sch, norm, job, more>>

BoroInit ==
    /\ InitStore /\ InitOwner /\ InitHttpOff /\ InitGenOff
    /\ plan = Off /\ sch = Off /\ norm = Off /\ job = Off /\ InitMoreOff
    /\ \E f \in BoroughFns, raw \in RawBoroughs :
           boro = [pc |-> "raw", fn |-> f, raw |-> raw, out |-> NA]

SpecBoro == BoroInit /\ [][Canonicalize]_vars

\* a and b are the same string up to letter case
SameLetters(a, b) ==
    /\ Len(a) = Len(b)
    /\ \A i \in 1..Len(a) :
          LowerChar(SubSeq(a, i, i)) = LowerChar(SubSeq(b, i, i))

\* C15: Borough canonicalization.  Every raw borough string is mapped to one
\* label of {Bronx, Brooklyn, Manhattan, Queens, Staten Island} or dropped
\* (NA); every code or name of the map, in any letter case, is mapped to the
\* label of that code or name; each canonical label is mapped to itself; and
\* Nassau is dropped.
C15_BoroughCanonical ==
    boro.pc = "done" =>
        /\ boro.out \in VALID_BOROUGHS \cup {NA}
        /\ \A k \in DOMAIN BORO_MAP :
              SameLetters(boro.raw, k) => boro.out = BORO_MAP[k]
        /\ boro.raw \in VALID_BOROUGHS => boro.out = boro.raw
        /\ boro.raw = "Nassau" => boro.out = NA

\* a mixed-case spelling of Brooklyn has been mapped to Brooklyn
C15_Witness ==
    boro.pc = "done" /\ boro.raw = "bRoOkLyN" /\ boro.out = "Brooklyn"

(***************************************************************************)
(* The normalizers of src/src/transform/clean.py and the shaping of the    *)
(* hourly extractor (_shape_and_aggregate).  A frame is a sequence of rows;*)
(* a number or date cell is <<n>>, or <<>> when it is missing (NaN, NaT,   *)
(* <NA>); a numeric cell is what pd.to_numeric(..., errors="coerce") made  *)
(* of the raw value, and only whole numbers occur.                         *)
(***************************************************************************)

\* the frames of a normalizer call have at most this many rows
MaxRows == 2

NaN == <<>>

\* the text columns; every other column is a number or a date
TextCols == {"mode", "borough"}

\* a cell of column c is missing
Missing(row, c) == IF c \in TextCols THEN row[c] = NA ELSE row[c] = NaN

\* .fillna(0)
FillNa0(x) == IF x = NaN THEN <<0>> ELSE x

\* a bug: no lower bound
ClipLowerOff(x, lower) == x

\* .clip(lower=lower): a missing value stays missing
ClipLower(x, lower) ==
    IF x = NaN THEN NaN ELSE IF x[1] < lower THEN <<lower>> ELSE x

\* .clip(lower=lower, upper=upper)
Clip(x, lower, upper) ==
    IF x = NaN THEN NaN
    ELSE IF x[1] > upper THEN <<upper>> ELSE ClipLower(x, lower)

\* out["hour"].where((out["hour"] >= 0) & (out["hour"] <= 23))
WhereHour(x) ==
    IF x = NaN THEN NaN ELSE IF x[1] >= 0 /\ x[1] <= 23 THEN x ELSE NaN

\* a bug: a mode that is neither subway nor bus is kept as it is
CleanModeAsIs(m) == Lower(m)

\* mode: lower-cased, and "subway" when it is neither subway nor bus
CleanMode(m) ==
    LET lm == Lower(m) IN IF lm \in {"subway", "bus"} THEN lm ELSE "subway"

\* the characters of the text cells in the order of their code points
CodePoints == " .<>ABCDEFGHIJKLMNOPQRSTUVWXYZabcdefghijklmnopqrstuvwxyz"

\* a < b on two strings
RECURSIVE StrLt(_, _)
StrLt(a, b) ==
    IF Len(b) = 0 THEN FALSE
    ELSE IF Len(a) = 0 THEN TRUE
    ELSE LET ca == IndexIn(SubSeq(a, 1, 1), CodePoints)
             cb == IndexIn(SubSeq(b, 1, 1), CodePoints)
         IN  IF ca # cb THEN ca < cb
             ELSE StrLt(SubSeq(a, 2, Len(a)), SubSeq(b, 2, Len(b)))

\* the cells of the columns `subset` of a row
KeyOf(row, subset) == [i \in 1..Len(subset) |-> row[subset[i]]]

\* row a is before row b in the order of the columns `subset`, compared from
\* column i on (the whole order is KeyLtFrom(a, b, subset, 1))
RECURSIVE KeyLtFrom(_, _, _, _)
KeyLtFrom(a, b, subset, i) ==
    IF i > Len(subset) THEN FALSE
    ELSE LET c == subset[i]
         IN  IF a[c] = b[c] THEN KeyLtFrom(a, b, subset, i + 1)
             ELSE IF c \in TextCols THEN StrLt(a[c], b[c])
             ELSE a[c][1] < b[c][1]

\* .dropna(subset=subset)
DropNa(rows, subset) ==
    SelectSeq(rows, LAMBDA r : \A i \in 1..Len(subset) : ~Missing(r, subset[i]))

\* the rows of the frame at the positions idx, in frame order
RECURSIVE RowsAt(_, _, _)
RowsAt(rows, idx, i) ==
    IF i > Len(rows) THEN <<>>
    ELSE (IF i \in idx THEN <<rows[i]>> ELSE <<>>) \o RowsAt(rows, idx, i + 1)

\* a bug: the last row of each key is kept
DropDuplicatesLast(rows, subset) ==
    RowsAt(rows,
           {i \in 1..Len(rows) :
               \A j \in (i + 1)..Len(rows) :
                   KeyOf(rows[j], subset) # KeyOf(rows[i], subset)}, 1)

\* a change: the rows kept are sorted by their key
DropDuplicatesSorted(rows, subset) ==
    SortSeq(RowsAt(rows,
                   {i \in 1..Len(rows) :
                       \A j \in 1..(i - 1) :
                           KeyOf(rows[j], subset) # KeyOf(rows[i], subset)}, 1),
            LAMBDA a, b : KeyLtFrom(a, b, subset, 1))

\* a bug: no row is dropped
DropDuplicatesOff(rows, subset) == rows

\* .drop_duplicates(subset=subset): the first row of each key is kept, in
\* frame order
DropDuplicates(rows, subset) ==
    RowsAt(rows,
           {i \in 1..Len(rows) :
               \A j \in 1..(i - 1) :
                   KeyOf(rows[j], subset) # KeyOf(rows[i], subset)}, 1)

\* the normalizers and their natural keys
Kinds == {"to_ridership_table", "to_weather_table", "to_hourly_table",
          "to_events_table"}

NaturalKey(kind) ==
    CASE kind = "to_ridership_table" -> <<"date", "mode">>
      [] kind = "to_weather_table" -> <<"date">>
      [] kind = "to_hourly_table" -> <<"date", "hour", "borough">>
      [] kind = "to_events_table" -> <<"date", "borough">>

\* the cell-wise steps of each normalizer on one row
CleanRow(kind, r) ==
    CASE kind = "to_ridership_table" ->
            [date |-> r.date, mode |-> CleanMode(r.mode),
             riders |-> ClipLower(FillNa0(r.riders), 0)]
      [] kind = "to_weather_table" ->
            [date |-> r.date,
             tmax_f |-> Clip(r.tmax_f, -30, 120),
             tmin_f |-> Clip(r.tmin_f, -50, 100),
             prcp_in |-> ClipLower(r.prcp_in, 0),
             snow_in |-> ClipLower(r.snow_in, 0)]
      [] kind = "to_hourly_table" ->
            [date |-> r.date, hour |-> WhereHour(r.hour),
             borough |-> CanonBorough(r.borough),
             riders |-> ClipLower(FillNa0(r.riders), 0)]
      [] kind = "to_events_table" ->
            [date |-> r.date, borough |-> CanonBorough(r.borough),
             event_count |-> ClipLower(FillNa0(r.event_count), 0)]

\* to_ridership_table, to_weather_table, to_hourly_table, to_events_table:
\* the cell-wise steps, dropna on the key columns, drop_duplicates
Normalize(kind, df) ==
    LET cleaned == [i \in 1..Len(df) |-> CleanRow(kind, df[i])]
    IN  DropDuplicates(DropNa(cleaned, NaturalKey(kind)), NaturalKey(kind))

\* sum of the riders of the rows at the positions idx; .sum() skips NaN
RECURSIVE SumRiders(_, _)
SumRiders(rows, idx) ==
    IF idx = {} THEN 0
    ELSE LET i == CHOOSE j \in idx : TRUE
         IN  (IF rows[i].riders = NaN THEN 0 ELSE rows[i].riders[1])
                 + SumRiders(rows, idx \ {i})

\* _shape_and_aggregate: groupby(["date", "hour", "borough"])["riders"].sum()
\* and sort_values, the borough as the raw data spell it
ShapeAndAggregate(rows) ==
    LET key == <<"date", "hour", "borough">>
        firsts == DropDuplicates(rows, key)
        summed == [i \in 1..Len(firsts) |->
                     [firsts[i] EXCEPT !.riders =
                        <<SumRiders(rows,
                             {j \in 1..Len(rows) :
                                 KeyOf(rows[j], key)
                                     = KeyOf(firsts[i], key)})>>]]
    IN  SortSeq(summed, LAMBDA a, b : KeyLtFrom(a, b, key, 1))

\* the rows the hourly extractor derives from raw records: the date and the
\* hour of a parsed time stamp, the borough as spelled, the ridership
RawHourlyRows ==
    {[date |-> <<d>>, hour |-> <<8>>, borough |-> b, riders |-> <<r>>] :
        d \in {1, 2}, b \in {"MN", "Manhattan", "BK"}, r \in {30, 120}}
    \cup {[date |-> <<1>>, hour |-> <<8>>, borough |-> "Nassau", riders |-> <<30>>],
          [date |-> <<1>>, hour |-> <<8>>, borough |-> "MN", riders |-> NaN]}

\* the rows of the input frames of each normalizer: two dates, the spellings
\* and values that make keys collide, and rows with a missing, negative or
\* out-of-range cell
RowsOf(kind) ==
    CASE kind = "to_ridership_table" ->
            {[date |-> <<d>>, mode |-> m, riders |-> <<r>>] :
                d \in {1, 2}, m \in {"subway", "bus"}, r \in {3, 7}}
            \cup {[date |-> <<1>>, mode |-> "Bus", riders |-> <<7>>],
                  [date |-> <<1>>, mode |-> "tram", riders |-> <<7>>],
                  [date |-> <<1>>, mode |-> "bus", riders |-> <<-5>>],
                  [date |-> <<1>>, mode |-> "bus", riders |-> NaN],
                  [date |-> NaN, mode |-> "bus", riders |-> <<3>>]}
      [] kind = "to_weather_table" ->
            {[date |-> d, tmax_f |-> w[1], tmin_f |-> w[2], prcp_in |-> w[3],
              snow_in |-> w[4]] :
                d \in {<<1>>, <<2>>, NaN},
                w \in {<<NaN, NaN, NaN, NaN>>,
                       <<<<200>>, <<110>>, <<5>>, <<5>>>>,
                       <<<<-40>>, <<-60>>, <<-1>>, <<-1>>>>,
                       <<<<70>>, <<50>>, <<0>>, <<2>>>>}}
      [] kind = "to_hourly_table" ->
            RawHourlyRows
            \cup {[date |-> <<1>>, hour |-> <<24>>, borough |-> "MN", riders |-> <<30>>],
                  [date |-> <<1>>, hour |-> <<-1>>, borough |-> "MN", riders |-> <<30>>],
                  [date |-> <<1>>, hour |-> <<0>>, borough |-> "MN", riders |-> <<-5>>],
                  [date |-> NaN, hour |-> <<23>>, borough |-> "MN", riders |-> <<30>>]}
      [] kind = "to_events_table" ->
            {[date |-> <<d>>, borough |-> b, event_count |-> <<n>>] :
                d \in {1, 2}, b \in {"BK", "Brooklyn", "Bronx"}, n \in {2, 5}}
            \cup {[date |-> <<1>>, borough |-> "Nassau", event_count |-> <<2>>],
                  [date |-> <<1>>, borough |-> "Bronx", event_count |-> <<-5>>],
                  [date |-> <<1>>, borough |-> "Bronx", event_count |-> NaN],
                  [date |-> NaN, borough |-> "Bronx", event_count |-> <<2>>]}

\* the frames of at most MaxRows rows
FramesOf(rows) == UNION {[1..n -> rows] : n \in 0..MaxRows}

\* the hourly extractor shapes the raw rows it fetched
Shape ==
    /\ norm.pc = "raw"
    /\ norm' = [norm EXCEPT !.pc = "in", !.df = ShapeAndAggregate(norm.raw)]
    /\ UNCHANGED <<table, stgTables, tx, call, owner, http, gen,
                    plan, sch, boro, job, more>>

\* one call of the normalizer on the frame df
NormalizeCall ==
    /\ norm.pc = "in"
    /\ norm' = [norm EXCEPT !.pc = "done", !.out = Normalize(norm.kind, norm.df)]
    /\ UNCHANGED <<table, stgTables, tx, call, owner, http, gen,
                    plan, sch, boro, job, more>>

NormInit ==
    /\ InitStore /\ InitOwner /\ InitHttpOff /\ InitGenOff
    /\ plan = Off /\ sch = Off /\ boro = Off /\ job = Off /\ InitMoreOff
    /\ \/ \E kind \in Kinds : \E df \in FramesOf(RowsOf(kind)) :
             norm = [pc |-> "in", kind |-> kind, shaped |-> FALSE, raw |-> <<>>,
                     df |-> df, out |-> <<>>]
       \/ \E raw \in FramesOf(RawHourlyRows) :
             norm = [pc |-> "raw", kind |-> "to_hourly_table", shaped |-> TRUE,
                     raw |-> raw, df |-> <<>>, out |-> <<>>]

SpecNorm == NormInit /\ [][Shape \/ NormalizeCall]_vars

\* an output cell is present and within lower..upper
Within(x, lower, upper) == x # NaN /\ lower <= x[1] /\ x[1] <= upper
AtLeast(x, lower) == x # NaN /\ lower <= x[1]

\* C16 as claimed: every record output by a normalizer has riders >= 0,
\* event_count >= 0, hour in 0..23, tmax_f in [-30, 120], tmin_f in
\* [-50, 100], prcp_in >= 0 and snow_in >= 0.
C16_AsClaimed ==
    norm.pc = "done" =>
        \A i \in 1..Len(norm.out) :
            LET r == norm.out[i]
            IN  CASE norm.kind = "to_ridership_table" -> AtLeast(r.riders, 0)
                  [] norm.kind = "to_events_table" -> AtLeast(r.event_count, 0)
                  [] norm.kind = "to_hourly_table" ->
                        AtLeast(r.riders, 0) /\ Within(r.hour, 0, 23)
                  [] norm.kind = "to_weather_table" ->
                        /\ Within(r.tmax_f, -30, 120)
                        /\ Within(r.tmin_f, -50, 100)
                        /\ AtLeast(r.prcp_in, 0)
                        /\ AtLeast(r.snow_in, 0)

\* C16: Bounds enforcement.  Every record output by a normalizer has
\* riders >= 0, event_count >= 0 and hour in 0..23; each weather measure is
\* either missing or within its bounds: tmax_f in [-30, 120], tmin_f in
\* [-50, 100], prcp_in >= 0, snow_in >= 0.  A frame of one row with riders or
\* event_count -5 yields 0, one with tmax_f 200 yields 120.
C16_BoundsEnforced ==
    norm.pc = "done" =>
        /\ \A i \in 1..Len(norm.out) :
              LET r == norm.out[i]
              IN  CASE norm.kind = "to_ridership_table" -> AtLeast(r.riders, 0)
                    [] norm.kind = "to_events_table" ->
                          AtLeast(r.event_count, 0)
                    [] norm.kind = "to_hourly_table" ->
                          AtLeast(r.riders, 0) /\ Within(r.hour, 0, 23)
                    [] norm.kind = "to_weather_table" ->
                          /\ r.tmax_f = NaN \/ Within(r.tmax_f, -30, 120)
                          /\ r.tmin_f = NaN \/ Within(r.tmin_f, -50, 100)
                          /\ r.prcp_in = NaN \/ AtLeast(r.prcp_in, 0)
                          /\ r.snow_in = NaN \/ AtLeast(r.snow_in, 0)
        /\ Len(norm.df) = 1 /\ Len(norm.out) = 1 =>
              CASE norm.kind \in {"to_ridership_table", "to_hourly_table"} ->
                      norm.df[1].riders = <<-5>> => norm.out[1].riders = <<0>>
                [] norm.kind = "to_events_table" ->
                      norm.df[1].event_count = <<-5>> =>
                          norm.out[1].event_count = <<0>>
                [] norm.kind = "to_weather_table" ->
                      norm.df[1].tmax_f = <<200>> =>
                          norm.out[1].tmax_f = <<120>>

\* a ridership row with riders -5 has been output with riders 0
C16_Witness ==
    /\ norm.pc = "done" /\ norm.kind = "to_ridership_table"
    /\ Len(norm.df) = 1 /\ norm.df[1].riders = <<-5>>
    /\ Len(norm.out) = 1 /\ norm.out[1].riders = <<0>>

\* C17: Hourly aggregation end to end.  For raw hourly rows passed through
\* _shape_and_aggregate and then to_hourly_table the output holds exactly one
\* record per (date, hour, canonical borough) that a raw row maps to, and no
\* other, and its riders is the sum of the riders of all raw rows that map to
\* that key, whichever spelling of the borough each row uses.
C17_HourlyEndToEnd ==
    norm.pc = "done" /\ norm.shaped =>
        LET key(r) == <<r.date, r.hour, CanonBorough(r.borough)>>
            live == {j \in 1..Len(norm.raw) :
                        CanonBorough(norm.raw[j].borough) # NA}
        IN  /\ \A j \in live :
                  LET same == {i \in live : key(norm.raw[i]) = key(norm.raw[j])}
                      recs == {o \in 1..Len(norm.out) :
                                  KeyOf(norm.out[o], NaturalKey("to_hourly_table"))
                                      = key(norm.raw[j])}
                  IN  /\ Cardinality(recs) = 1
                      /\ \A o \in recs :
                            norm.out[o].riders = <<SumRiders(norm.raw, same)>>
            /\ \A o \in 1..Len(norm.out) :
                  \E j \in live : KeyOf(norm.out[o], NaturalKey("to_hourly_table")) = key(norm.raw[j])

\* the rows of the input frame that the normalizer does not drop for a
\* missing key cell
ValidRows ==
    {i \in 1..Len(norm.df) :
        \A k \in 1..Len(NaturalKey(norm.kind)) :
            ~Missing(CleanRow(norm.kind, norm.df[i]), NaturalKey(norm.kind)[k])}

\* the natural key of input row i after cleaning
CleanKey(i) == KeyOf(CleanRow(norm.kind, norm.df[i]), NaturalKey(norm.kind))

\* the valid input rows with the key of the output record r
RowsOfKey(r) ==
    {i \in ValidRows : CleanKey(i) = KeyOf(r, NaturalKey(norm.kind))}

\* the count column of the kind
CountOf(kind, r) ==
    IF kind = "to_events_table" THEN r.event_count[1] ELSE r.riders[1]

RECURSIVE SumCounts(_)
SumCounts(idx) ==
    IF idx = {} THEN 0
    ELSE LET i == CHOOSE j \in idx : TRUE
         IN  CountOf(norm.kind, CleanRow(norm.kind, norm.df[i]))
                 + SumCounts(idx \ {i})

\* C18 as claimed: to_ridership_table and to_events_table output one record
\* per natural key whose count is the sum of the counts of the input rows
\* with that key; to_weather_table outputs the first-occurring row of a date.
C18_AsClaimed ==
    norm.pc = "done" /\ ~norm.shaped /\ norm.kind # "to_hourly_table" =>
        \A o \in 1..Len(norm.out) :
            IF norm.kind = "to_weather_table"
            THEN norm.out[o]
                    = CleanRow(norm.kind, norm.df[Least(RowsOfKey(norm.out[o]))])
            ELSE CountOf(norm.kind, norm.out[o])
                    = SumCounts(RowsOfKey(norm.out[o]))

\* C18: Deduplication policy within one normalize call.  Each normalizer
\* outputs exactly one record per natural key of its valid input rows, and
\* the record is the cleaned first-occurring input row with that key: the
\* counts of later rows with the same key are not added.
C18_KeepFirst ==
    norm.pc = "done" =>
        /\ \A i \in ValidRows :
              Cardinality({o \in 1..Len(norm.out) :
                  KeyOf(norm.out[o], NaturalKey(norm.kind)) = CleanKey(i)}) = 1
        /\ \A o \in 1..Len(norm.out) :
              /\ RowsOfKey(norm.out[o]) # {}
              /\ norm.out[o]
                    = CleanRow(norm.kind, norm.df[Least(RowsOfKey(norm.out[o]))])

\* two ridership rows of one key with riders 3 and 7 have been output as one
\* record with riders 3
C18_Witness ==
    /\ norm.pc = "done" /\ norm.kind = "to_ridership_table"
    /\ norm.df = <<[date |-> <<1>>, mode |-> "bus", riders |-> <<3>>],
                   [date |-> <<1>>, mode |-> "bus", riders |-> <<7>>]>>
    /\ norm.out = <<[date |-> <<1>>, mode |-> "bus", riders |-> <<3>>]>>

\* the records are in ascending order of their natural key
Ascending(rows, subset) ==
    \A i, j \in 1..Len(rows) : i < j => ~KeyLtFrom(rows[j], rows[i], subset, 1)

\* C19 as claimed: for every input, in any row order, the records output by
\* each normalizer are in ascending order of their natural key.
C19_AsClaimed ==
    norm.pc = "done" => Ascending(norm.out, NaturalKey(norm.kind))

\* C19: Output ordering.  The normalizers do not sort: the output records are
\* in the order in which their keys first occur in the input frame, so the
\* output is in ascending order of the natural key when the valid rows of
\* the input frame, once cleaned, already are.
C19_InputOrderKept ==
    norm.pc = "done" =>
        /\ \A o1, o2 \in 1..Len(norm.out) :
              o1 < o2 =>
                 Least(RowsOfKey(norm.out[o1])) < Least(RowsOfKey(norm.out[o2]))
        /\ (\A i, j \in ValidRows :
               i < j => ~KeyLtFrom(CleanRow(norm.kind, norm.df[j]),
                                   CleanRow(norm.kind, norm.df[i]),
                                   NaturalKey(norm.kind), 1))
              => Ascending(norm.out, NaturalKey(norm.kind))

\* two ridership rows in descending date order have been output in that order
C19_Witness ==
    /\ norm.pc = "done" /\ norm.kind = "to_ridership_table"
    /\ Len(norm.out) = 2
    /\ norm.out[1].date = <<2>> /\ norm.out[2].date = <<1>>

(***************************************************************************)
(* The backfill jobs backfill_daily, backfill_hourly, backfill_events      *)
(* (src/scripts/backfill.py): for each chunk of the plan fetch, normalize, *)
(* upsert.  The dates are those of the loader part and each upsert is one  *)
(* committed transaction.                                                  *)
(***************************************************************************)

BackfillFns == {"backfill_daily", "backfill_hourly", "backfill_events"}

\* list(daterange_chunks(d, e, chunk_days)) on day numbers, chunk_days >= 1
RECURSIVE ChunkPlan(_, _, _)
ChunkPlan(d, e, chunk_days) ==
    IF d <= e
    THEN LET chunk_end == ChunkEnd(d, chunk_days, e)
         IN  <<<<d, chunk_end>>>> \o ChunkPlan(chunk_end + 1, e, chunk_days)
    ELSE <<>>

\* the steps of one turn of the loop that can raise
\* the frames a normalizer can hand to upsert for the chunk: rows dated within
\* the chunk, one per key
ChunkFrames(chunk) ==
    {df \in Frames :
        UniqueKeys(df) /\ \A r \in df : chunk[1] <= r.date /\ r.date <= chunk[2]}

\* one turn of `for s, e in daterange_chunks(...)` in which nothing raises:
\* the chunk is fetched, normalized and upserted
ChunkOk ==
    /\ job.pc = "run"
    /\ job.i <= Len(job.chunks)
    /\ \E df \in ChunkFrames(job.chunks[job.i]) :
          /\ table' = InsertSelect(table, df, TRUE)
          /\ job' = [job EXCEPT !.i = @ + 1,
                                !.done = @ \cup {<<job.i, df>>}]
    /\ UNCHANGED <<stgTables, tx, call, owner, http, gen,
                    plan, sch, boro, norm, more>>

\* one turn in which a step raises: nothing catches the exception, it leaves
\* the loop and the function
ChunkRaises ==
    /\ job.pc = "run"
    /\ job.i <= Len(job.chunks)
    /\ \E step \in {"fetch", "normalize", "upsert"} :
          job' = [job EXCEPT !.pc = "raised", !.step = step]
    /\ UNCHANGED <<table, stgTables, tx, call, owner, http, gen,
                    plan, sch, boro, norm, more>>

\* the generator is exhausted: the function prints its totals and returns
JobReturns ==
    /\ job.pc = "run"
    /\ job.i > Len(job.chunks)
    /\ job' = [job EXCEPT !.pc = "returned"]
    /\ UNCHANGED <<table, stgTables, tx, call, owner, http, gen,
                    plan, sch, boro, norm, more>>

JobInit ==
    /\ InitStore /\ InitOwner /\ InitHttpOff /\ InitGenOff
    /\ plan = Off /\ sch = Off /\ boro = Off /\ norm = Off /\ InitMoreOff
    /\ \E fn \in BackfillFns, chunk_days \in 1..MaxChunkDays :
           job = [pc |-> "run", fn |-> fn,
                  chunks |-> ChunkPlan(0, Today, chunk_days),
                  i |-> 1, done |-> {}, step |-> ""]

SpecBackfill == JobInit /\ [][ChunkOk \/ ChunkRaises \/ JobReturns]_vars

\* C20: Backfill failure isolation.  When fetch or normalize fails for one
\* chunk, that chunk is skipped and every later chunk of the plan is still
\* fetched and upserted: a run ends only when every chunk other than the
\* failed ones has been upserted; and the rows upserted for earlier chunks
\* stay in the table.
C20_FailureIsolation ==
    /\ job.pc = "raised" /\ job.step \in {"fetch", "normalize"} =>
          \A k \in 1..Len(job.chunks) :
              k = job.i \/ \E d \in job.done : d[1] = k
    /\ job.pc \in {"run", "raised", "returned"} =>
          \A d \in job.done : d[2] \subseteq table

(***************************************************************************)
(* daily_refresh (src/scripts/daily_job.py): the fetches and the loads of  *)
(* the three source families, in the order of the code.  The window of     *)
(* every load is MaxDays days.                                             *)
(***************************************************************************)
\* the statements of daily_refresh that can raise, in program order
RefreshSteps ==
    << <<"fetch", "ridership">>, <<"fetch", "weather">>,
       <<"load", "ridership">>, <<"load", "weather">>,
       <<"fetch", "hourly">>, <<"load", "hourly">>,
       <<"fetch", "events">>, <<"load", "events">> >>

\* x = to_*_table(fetch_*(s, e)): the extractor and the normalizer return a
\* frame of unique natural keys
RefreshFetch ==
    /\ refresh.pc = "run" /\ refresh.i <= Len(RefreshSteps)
    /\ RefreshSteps[refresh.i][1] = "fetch"
    /\ \E df \in {f \in Frames : UniqueKeys(f) /\ Cardinality(f) <= 1} :
          refresh' = [refresh EXCEPT !.i = @ + 1,
                         !.got[RefreshSteps[refresh.i][2]] = df]
    /\ UNCHANGED <<table, stgTables, tx, call, owner, http, gen,
                    plan, sch, boro, norm, job, conc, pager, hourly>>

\* upsert_replace_recent_days(x, table, days, pkey) returns: nothing is done
\* for an empty frame, else the window is deleted and the frame upserted
RefreshLoad ==
    /\ refresh.pc = "run" /\ refresh.i <= Len(RefreshSteps)
    /\ RefreshSteps[refresh.i][1] = "load"
    /\ LET s == RefreshSteps[refresh.i][2]
           df == refresh.got[s]
           t == refresh.tables[s]
       IN  refresh' = [refresh EXCEPT !.i = @ + 1,
                          !.ran = @ \cup {s},
                          !.tables[s] =
                             IF df = {} THEN t
                             ELSE InsertSelect(DeleteRecent(t, MaxDays), df, TRUE)]
    /\ UNCHANGED <<table, stgTables, tx, call, owner, http, gen,
                    plan, sch, boro, norm, job, conc, pager, hourly>>

\* the statement raises: daily_refresh has no handler, the exception leaves
\* the function
RefreshRaises ==
    /\ refresh.pc = "run" /\ refresh.i <= Len(RefreshSteps)
    /\ refresh' = [refresh EXCEPT !.pc = "raised",
                                  !.failed = RefreshSteps[refresh.i]]
    /\ UNCHANGED <<table, stgTables, tx, call, owner, http, gen,
                    plan, sch, boro, norm, job, conc, pager, hourly>>

\* the last statement is done: daily_refresh returns
RefreshReturns ==
    /\ refresh.pc = "run" /\ refresh.i > Len(RefreshSteps)
    /\ refresh' = [refresh EXCEPT !.pc = "returned"]
    /\ UNCHANGED <<table, stgTables, tx, call, owner, http, gen,
                    plan, sch, boro, norm, job, conc, pager, hourly>>

\* one run of daily_refresh; every table holds a row of each day
RefreshInit ==
    /\ InitStore /\ InitOwner /\ InitHttpOff /\ InitGenOff
    /\ plan = Off /\ sch = Off /\ boro = Off /\ norm = Off /\ job = Off
    /\ conc = Off /\ pager = Off /\ hourly = Off
    /\ refresh = [pc |-> "run", i |-> 1, ran |-> {}, failed |-> <<>>,
                  got |-> [s \in {"ridership", "weather", "hourly", "events"}
                              |-> {}],
                  tables |-> [s \in {"ridership", "weather", "hourly", "events"}
                                 |-> {r \in Rows : r.v = 1}]]

SpecRefresh ==
    RefreshInit /\ [][RefreshFetch \/ RefreshLoad \/ RefreshRaises \/ RefreshReturns]_vars

\* the family of a source
FamilyOf(s) == IF s \in {"ridership", "weather"} THEN "daily" ELSE s

\* C21: Daily-refresh failure isolation.  When a fetch or a normalizer of one
\* source family has raised in daily_refresh, the tables of every other
\* family have still been refreshed in that run.
C21_RefreshIsolation ==
    refresh.pc = "raised" /\ refresh.failed[1] = "fetch" =>
        \A s \in DOMAIN refresh.tables :
            FamilyOf(s) # FamilyOf(refresh.failed[2]) => s \in refresh.ran

(***************************************************************************)
(* Two upsert calls on one target table at the same time, each in its own  *)
(* transaction.  conc.stg is the catalog of staging tables: the table      *)
(* `name` created by the transaction of call `by`, not committed yet.      *)
(***************************************************************************)
\* a bug: CREATE TABLE does not wait for the transaction that holds the name
StgBlockedNever(stg, c, name) == FALSE

\* CREATE TABLE of a name that another open transaction has created waits
\* for the end of that transaction
StgBlocked(stg, c, name) == \E e \in stg : e.name = name /\ e.by # c

\* upsert(df, table, pkey): the early return, else tmp_table is drawn from
\* the values of uuid.uuid4().hex[:8] (two calls can draw the same one) and
\* the transaction is opened
ConcBegin(c) ==
    /\ conc.pc = "run" /\ conc.calls[c].pc = "call"
    /\ IF conc.calls[c].df = {}
       THEN conc' = [conc EXCEPT !.calls[c].pc = "returned"]
       ELSE \E n \in {"_stg_t_0a", "_stg_t_0b"} :
               conc' = [conc EXCEPT !.calls[c].pc = "stage", !.calls[c].name = n]
    /\ UNCHANGED <<table, stgTables, tx, call, owner, http, gen,
                    plan, sch, boro, norm, job, refresh, pager, hourly>>

\* df.to_sql(tmp_table, if_exists="fail"): the table is created and filled in
\* the transaction of the call
ConcStage(c) ==
    /\ conc.pc = "run" /\ conc.calls[c].pc = "stage"
    /\ ~StgBlocked(conc.stg, c, conc.calls[c].name)
    /\ conc' = [conc EXCEPT !.calls[c].pc = "merge",
                   !.stg = @ \cup {[name |-> conc.calls[c].name, by |-> c,
                                     rows |-> conc.calls[c].df]}]
    /\ UNCHANGED <<table, stgTables, tx, call, owner, http, gen,
                    plan, sch, boro, norm, job, refresh, pager, hourly>>

\* INSERT INTO target SELECT ... FROM tmp_table ON CONFLICT ...: the rows of
\* tmp_table as the transaction of the call sees it
ConcMerge(c) ==
    /\ conc.pc = "run" /\ conc.calls[c].pc = "merge"
    /\ conc' = [conc EXCEPT !.calls[c].pc = "drop",
                   !.calls[c].read =
                      UNION {e.rows : e \in {x \in conc.stg :
                                x.name = conc.calls[c].name /\ x.by = c}}]
    /\ UNCHANGED <<table, stgTables, tx, call, owner, http, gen,
                    plan, sch, boro, norm, job, refresh, pager, hourly>>

\* DROP TABLE tmp_table
ConcDrop(c) ==
    /\ conc.pc = "run" /\ conc.calls[c].pc = "drop"
    /\ conc' = [conc EXCEPT !.calls[c].pc = "commit",
                   !.stg = {e \in @ : ~(e.name = conc.calls[c].name /\ e.by = c)}]
    /\ UNCHANGED <<table, stgTables, tx, call, owner, http, gen,
                    plan, sch, boro, norm, job, refresh, pager, hourly>>

\* the end of the with block commits: the merged rows and what is left of
\* the catalog entries of the transaction become visible
ConcCommit(c) ==
    /\ conc.pc = "run" /\ conc.calls[c].pc = "commit"
    /\ table' = InsertSelect(table, conc.calls[c].read, TRUE)
    /\ stgTables' = stgTables \cup {e.rows : e \in {x \in conc.stg : x.by = c}}
    /\ conc' = [conc EXCEPT !.calls[c].pc = "returned",
                   !.stg = {e \in @ : e.by # c}]
    /\ UNCHANGED <<tx, call, owner, http, gen,
                    plan, sch, boro, norm, job, refresh, pager, hourly>>

\* a statement of the transaction (or its commit) raises: the with block
\* rolls back, the staging table of the transaction included
ConcFail(c) ==
    /\ conc.pc = "run" /\ conc.calls[c].pc \in InTx
    /\ conc' = [conc EXCEPT !.calls[c].pc = "raised",
                   !.stg = {e \in @ : e.by # c}]
    /\ UNCHANGED <<table, stgTables, tx, call, owner, http, gen,
                    plan, sch, boro, norm, job, refresh, pager, hourly>>

\* two calls with a batch of at most one row each
ConcInit ==
    /\ InitStore /\ InitOwner /\ InitHttpOff /\ InitGenOff
    /\ plan = Off /\ sch = Off /\ boro = Off /\ norm = Off /\ job = Off
    /\ refresh = Off /\ pager = Off /\ hourly = Off
    /\ \E df1, df2 \in {f \in Frames : Cardinality(f) <= 1} :
          conc = [pc |-> "run", stg |-> {},
                  calls |-> [c \in {1, 2} |->
                               [pc |-> "call", df |-> IF c = 1 THEN df1 ELSE df2,
                                name |-> "", read |-> {}]]]

SpecConc ==
    ConcInit /\ [][\E c \in {1, 2} : \/ ConcBegin(c) \/ ConcStage(c) \/ ConcMerge(c)
                                     \/ ConcDrop(c) \/ ConcCommit(c) \/ ConcFail(c)]_vars

\* C22: Staging isolation under interleaving.  In every interleaving of two
\* upsert calls on one target table no staging table is in use by both calls
\* at once, the merge of a call has read exactly the rows that call staged,
\* and when a call has ended (returned or raised) it has left no staging
\* table behind, visible or not.
C22_StagingIsolation ==
    conc.pc = "run" =>
        /\ \A e1, e2 \in conc.stg : e1.name = e2.name => e1 = e2
        /\ \A c \in {1, 2} :
              /\ conc.calls[c].pc \in {"drop", "commit", "returned"}
                    /\ conc.calls[c].df # {}
                    => conc.calls[c].read = conc.calls[c].df
              /\ conc.calls[c].pc \in {"returned", "raised"}
                    => \A e \in conc.stg : e.by # c
        /\ (\A c \in {1, 2} : conc.calls[c].pc \in {"returned", "raised"})
              => conc.stg = {} /\ stgTables = {}

\* both calls drew the same name, staged different batches, and both merges
\* ran before either transaction committed
C22_Witness ==
    /\ conc.pc = "run"
    /\ conc.calls[1].pc = "commit" /\ conc.calls[2].pc = "commit"
    /\ conc.calls[1].name = conc.calls[2].name
    /\ conc.calls[1].df # conc.calls[2].df

(***************************************************************************)
(* The paging loops: _fetch_raw_json and _fetch_raw_csv of mta_hourly.py   *)
(* (requests.get, no retry) and _fetch_events of events_daily.py           *)
(* (_http_get, with the filter fallback).  Offsets are counted in pages of *)
(* `limit` rows; pager.reqs is the history of the requests and their       *)
(* answers.                                                                *)
(***************************************************************************)
\* `if page > 4: break`
PageGuard == 4

\* a bug: no page ceiling
GuardHitNever(page) == FALSE

\* `if page > 4: break`, after page += 1
GuardHit(page) == page > PageGuard

\* a bug: every HTTPError is answered by another try
OnHttpErrorRetry(where_ok) == "retry"

\* `except requests.HTTPError: if where_ok: where_ok = False; continue
\* else: raise`
OnHttpError(where_ok) == IF where_ok THEN "retry" ELSE "raise"

\* the request of this turn of the loop and its answer, added to the history
Asked(resp, status) ==
    Append(pager.reqs, [offset |-> pager.offset, where |-> pager.where_ok,
                        resp |-> resp, status |-> status])

\* the request is answered with a page (status 200): an empty or a short
\* page ends the loop, a full page moves the offset, up to the page ceiling
PageOk ==
    /\ pager.pc = "run"
    /\ \E size \in {"empty", "short", "full"} :
          pager' =
             IF size = "full" /\ ~GuardHit(pager.page + 1)
             THEN [pager EXCEPT !.reqs = Asked(size, 200), !.offset = @ + 1,
                                !.page = @ + 1]
             ELSE IF size = "full"
             THEN [pager EXCEPT !.reqs = Asked(size, 200), !.offset = @ + 1,
                                !.page = @ + 1, !.pc = "returned"]
             ELSE [pager EXCEPT !.reqs = Asked(size, 200), !.pc = "returned"]
    /\ UNCHANGED <<table, stgTables, tx, call, owner, http, gen,
                    plan, sch, boro, norm, job, refresh, conc, hourly>>

\* mta_hourly.py: `if r.status_code != 200: break`, the rows collected so far
\* are returned
PageNot200 ==
    /\ pager.pc = "run" /\ pager.kind # "_fetch_events"
    /\ \E status \in Statuses \ {200} :
          pager' = [pager EXCEPT !.reqs = Asked("status", status),
                                 !.pc = "returned"]
    /\ UNCHANGED <<table, stgTables, tx, call, owner, http, gen,
                    plan, sch, boro, norm, job, refresh, conc, hourly>>

\* events_daily.py: _http_get raises HTTPError (a 4xx or 5xx that it did not
\* or could not retry away)
PageHttpError ==
    /\ pager.pc = "run" /\ pager.kind = "_fetch_events"
    /\ \E status \in {s \in Statuses : RaiseForStatus(s)} :
          pager' =
             IF OnHttpError(pager.where_ok) = "retry"
             THEN [pager EXCEPT !.reqs = Asked("HTTPError", status),
                                !.where_ok = FALSE]
             ELSE [pager EXCEPT !.reqs = Asked("HTTPError", status),
                                !.pc = "raised"]
    /\ UNCHANGED <<table, stgTables, tx, call, owner, http, gen,
                    plan, sch, boro, norm, job, refresh, conc, hourly>>

\* requests.get raises, or the body does not parse: the exception leaves the
\* loop and the function
PageRaises ==
    /\ pager.pc = "run"
    /\ pager' = [pager EXCEPT !.reqs = Asked("raise", NetErr), !.pc = "raised"]
    /\ UNCHANGED <<table, stgTables, tx, call, owner, http, gen,
                    plan, sch, boro, norm, job, refresh, conc, hourly>>

\* one paging loop; _fetch_events starts with the filter on when a date
\* column was resolved
PagerInit ==
    /\ InitStore /\ InitOwner /\ InitHttpOff /\ InitGenOff
    /\ plan = Off /\ sch = Off /\ boro = Off /\ norm = Off /\ job = Off
    /\ refresh = Off /\ conc = Off /\ hourly = Off
    /\ \E kind \in {"_fetch_raw_json", "_fetch_raw_csv", "_fetch_events"},
          date_col \in BOOLEAN :
          /\ kind # "_fetch_events" => date_col
          /\ pager = [pc |-> "run", kind |-> kind, where_ok |-> date_col,
                      offset |-> 0, page |-> 0, reqs |-> <<>>]

SpecPager ==
    PagerInit /\ [][PageOk \/ PageNot200 \/ PageHttpError \/ PageRaises]_vars

\* the pages that were fetched: the positions of the history with a page
Fetched == {j \in 1..Len(pager.reqs) : pager.reqs[j].resp \in {"short", "full"}}

\* C23: Upstream failure is never reported as an empty result in the hourly
\* family.  A page request of the hourly fetch that is answered with a
\* transient status (429/5xx) is tried again at the same offset, and a fetch
\* that returned has had its last request answered with a page: it does not
\* return the rows collected so far, or none, after a failed request.
C23_UpstreamFailureRaises ==
    pager.pc # "off" /\ pager.kind # "_fetch_events" =>
        /\ \A j \in 1..Len(pager.reqs) :
              pager.reqs[j].status \in Transient =>
                 /\ pager.pc = "run" \/ j < Len(pager.reqs)
                 /\ j < Len(pager.reqs) =>
                       pager.reqs[j + 1].offset = pager.reqs[j].offset
        /\ pager.pc = "returned" =>
              pager.reqs[Len(pager.reqs)].status = 200

\* C24: Filter-fallback protocol in _fetch_events.  Every request is sent
\* with the current offset and filter mode; the filter is never switched on
\* and is switched off only by an HTTPError; an HTTPError raised while the
\* filter is on switches it off and leaves the offset and the page count as
\* they are, so that the same page is requested once more without
\* $where/$order; an HTTPError raised while the filter is off leaves the
\* function.
C24_FilterFallback ==
    [][pager.pc = "run" /\ pager.kind = "_fetch_events" =>
          LET last == pager'.reqs[Len(pager'.reqs)]
          IN  /\ Len(pager'.reqs) = Len(pager.reqs) + 1
              /\ last.offset = pager.offset /\ last.where = pager.where_ok
              /\ pager'.where_ok => pager.where_ok
              /\ last.resp # "HTTPError" => pager'.where_ok = pager.where_ok
              /\ last.resp = "HTTPError" =>
                    IF pager.where_ok
                    THEN /\ pager'.pc = "run" /\ ~pager'.where_ok
                         /\ pager'.offset = pager.offset
                         /\ pager'.page = pager.page
                    ELSE pager'.pc = "raised"]_vars

\* the filter failed on the second page, the page was fetched without the
\* filter, and a later HTTPError left the function
C24_Witness ==
    /\ pager.pc = "raised" /\ pager.kind = "_fetch_events"
    /\ Len(pager.reqs) = 4
    /\ pager.reqs[2].resp = "HTTPError" /\ pager.reqs[2].where
    /\ pager.reqs[3].resp = "full" /\ ~pager.reqs[3].where
    /\ pager.reqs[3].offset = pager.reqs[2].offset
    /\ pager.reqs[4].resp = "HTTPError"

\* C25 as claimed: each paging loop ends after at most 5 fetched pages, the
\* j-th request asks for offset (j - 1) * limit, no offset skipped or
\* repeated, and no request follows an empty or short page.
C25_AsClaimed ==
    pager.pc # "off" =>
        /\ Cardinality(Fetched) <= PageGuard + 1
        /\ Cardinality(Fetched) = PageGuard + 1 => pager.pc # "run"
        /\ \A j \in 1..Len(pager.reqs) :
              /\ pager.reqs[j].offset = j - 1
              /\ pager.reqs[j].resp \in {"empty", "short"} => j = Len(pager.reqs)

\* C25: Page-count ceiling.  Each paging loop ends after at most 5 fetched
\* pages; the pages fetched are those of the offsets 0, limit, 2*limit, ...
\* in order, none skipped or repeated; no request follows an empty or short
\* page; and an offset is requested a second time only by _fetch_events,
\* right after an HTTPError raised while the filter was on.
C25_PageCeiling ==
    pager.pc # "off" =>
        /\ Cardinality(Fetched) <= PageGuard + 1
        /\ Cardinality(Fetched) = PageGuard + 1 => pager.pc # "run"
        /\ \A j \in Fetched :
              pager.reqs[j].offset = Cardinality({i \in Fetched : i < j})
        /\ \A j \in 1..Len(pager.reqs) :
              /\ pager.reqs[j].resp \in {"empty", "short"} => j = Len(pager.reqs)
              /\ j > 1 =>
                    IF pager.reqs[j - 1].resp = "full"
                    THEN pager.reqs[j].offset = pager.reqs[j - 1].offset + 1
                    ELSE /\ pager.reqs[j].offset = pager.reqs[j - 1].offset
                         /\ pager.kind = "_fetch_events"
                         /\ pager.reqs[j - 1].resp = "HTTPError"
                         /\ pager.reqs[j - 1].where

\* _fetch_events returned at the page ceiling: five full pages, the third
\* one requested twice
C25_Witness ==
    /\ pager.pc = "returned" /\ pager.kind = "_fetch_events"
    /\ Cardinality(Fetched) = PageGuard + 1
    /\ Len(pager.reqs) = PageGuard + 2
    /\ pager.reqs[3].resp = "HTTPError"
    /\ pager.reqs[Len(pager.reqs)].resp = "full"

\* C28: Consistent paging across the filter fallback in _fetch_events.  All
\* the pages accumulated by one call were fetched under one query mode: all
\* with the server-side filter and order, or all without.
C28_OneResultSet ==
    pager.pc # "off" /\ pager.kind = "_fetch_events" =>
        \A i, j \in Fetched : pager.reqs[i].where = pager.reqs[j].where

C29_UniqueNaturalKeys ==
    norm.pc = "done" =>
        /\ \A o1, o2 \in 1..Len(norm.out) :
              KeyOf(norm.out[o1], NaturalKey(norm.kind))
                  = KeyOf(norm.out[o2], NaturalKey(norm.kind)) => o1 = o2
        /\ \A o \in 1..Len(norm.out) :
              \A k \in 1..Len(NaturalKey(norm.kind)) :
                 ~Missing(norm.out[o], NaturalKey(norm.kind)[k])

\* two hourly rows spelled MN and Manhattan, distinct in the input, have
\* been output as one record
C29_Witness ==
    /\ norm.pc = "done" /\ norm.kind = "to_hourly_table"
    /\ Len(norm.df) = 2 /\ Len(norm.out) = 1
    /\ norm.df[1].borough = "MN" /\ norm.df[2].borough = "Manhattan"
    /\ norm.df[1].date = norm.df[2].date /\ norm.df[1].hour = norm.df[2].hour

\* C27: upsert_replace_recent_days with an empty (or None) batch returns 0 and
\* changes nothing: the target table is as it was before the call, rows of
\* the trailing window included, and no staging table exists.
C27_EmptyReplaceIsNoOp ==
    call.op = "replace" /\ call.df = {} /\ call.pc = "returned" =>
        /\ call.ret = 0
        /\ table = call.pre
        /\ stgTables = {}
        /\ ~tx.open

\* the call returned with an empty batch while the table holds a row of today
C27_Witness ==
    /\ call.op = "replace" /\ call.df = {} /\ call.pc = "returned"
    /\ call.days >= 1
    /\ \E r \in table : r.date = Today

(***************************************************************************)
(* The hourly frames from fetch_mta_hourly_by_borough to to_hourly_table,  *)
(* with their columns.  The rows of a sub-request are dated at its first   *)
(* day.                                                                    *)
(***************************************************************************)
\* "data.ny.gov/" + ("wujg-7c2s" if "wujg-7c2s" in url_base else "5wq4-mkjj")
SourceTag(k) ==
    "data.ny.gov/" \o (IF Contains("wujg-7c2s", DATASETS[k][1]) THEN "wujg-7c2s"
                       ELSE "5wq4-mkjj")

\* one turn of `for url_base, ds_start, ds_end in DATASETS`: the dataset is
\* skipped when it does not overlap the request, else _fetch_raw returns the
\* shaped rows with their source tag, which are kept when there are any
HourlyFetchRaw ==
    /\ hourly.pc = "fetch" /\ hourly.k <= Len(DATASETS)
    /\ LET s == EpochStart(hourly.start, DATASETS[hourly.k][2])
           e == EpochEnd(hourly.end, DATASETS[hourly.k][3])
       IN  IF ~StrLeq(s, e)
           THEN hourly' = [hourly EXCEPT !.k = @ + 1]
           ELSE \E raw \in FramesOf({[date |-> <<FromIso(s)>>, hour |-> <<8>>,
                                      borough |-> b, riders |-> <<30>>] :
                                        b \in {"MN", "BK"}}) :
                   LET df == ShapeAndAggregate(raw)
                   IN  hourly' = [hourly EXCEPT !.k = @ + 1,
                          !.frames = @ \o
                             [i \in 1..Len(df) |->
                                [date |-> df[i].date, hour |-> df[i].hour,
                                 borough |-> df[i].borough,
                                 riders |-> df[i].riders,
                                 source |-> SourceTag(hourly.k)]]]
    /\ UNCHANGED <<table, stgTables, tx, call, owner, http, gen,
                    plan, sch, boro, norm, job, refresh, conc, pager>>

\* after the loop: the empty frame with the five columns when nothing was
\* fetched, else groupby(["date", "hour", "borough"])["riders"].sum() of the
\* concatenated frames, which has the key columns and riders only
HourlyReturn ==
    /\ hourly.pc = "fetch" /\ hourly.k > Len(DATASETS)
    /\ hourly' =
          IF hourly.frames = <<>>
          THEN [hourly EXCEPT !.pc = "returned", !.out = <<>>,
                   !.cols = {"date", "hour", "borough", "riders", "source"}]
          ELSE LET agg == ShapeAndAggregate(hourly.frames)
               IN  [hourly EXCEPT !.pc = "returned",
                      !.cols = {"date", "hour", "borough", "riders"},
                      !.out = [i \in 1..Len(agg) |->
                                 [date |-> agg[i].date, hour |-> agg[i].hour,
                                  borough |-> agg[i].borough,
                                  riders |-> agg[i].riders]]]
    /\ UNCHANGED <<table, stgTables, tx, call, owner, http, gen,
                    plan, sch, boro, norm, job, refresh, conc, pager>>

\* to_hourly_table on the returned frame: the cell-wise steps, the source
\* column kept when the frame has one and "data.ny.gov/hourly" otherwise,
\* dropna and drop_duplicates on the key
HourlyNormalize ==
    /\ hourly.pc = "returned"
    /\ LET key == NaturalKey("to_hourly_table")
           cleaned == [i \in 1..Len(hourly.out) |->
                         CleanRow("to_hourly_table", hourly.out[i])
                            @@ [source |-> IF "source" \in hourly.cols
                                           THEN hourly.out[i].source
                                           ELSE "data.ny.gov/hourly"]]
       IN  hourly' = [hourly EXCEPT !.pc = "done",
                         !.table = DropDuplicates(DropNa(cleaned, key), key)]
    /\ UNCHANGED <<table, stgTables, tx, call, owner, http, gen,
                    plan, sch, boro, norm, job, refresh, conc, pager>>

\* one call fetch_mta_hourly_by_borough(start_date, end_date)
HourlyInit ==
    /\ InitStore /\ InitOwner /\ InitHttpOff /\ InitGenOff
    /\ plan = Off /\ sch = Off /\ boro = Off /\ norm = Off /\ job = Off
    /\ refresh = Off /\ conc = Off /\ pager = Off
    /\ \E s \in PlanDates, e \in PlanDates :
          hourly = [pc |-> "fetch", start |-> s, end |-> e, k |-> 1,
                    frames |-> <<>>, cols |-> {}, out |-> <<>>, table |-> <<>>]

SpecHourly == HourlyInit /\ [][HourlyFetchRaw \/ HourlyReturn \/ HourlyNormalize]_vars

\* C30: Source tag preservation for hourly ridership.  Every record that
\* fetch_mta_hourly_by_borough returned and to_hourly_table normalized
\* carries the source tag of the dataset epoch that covers its date.
C30_SourceTagKept ==
    hourly.pc = "done" =>
        \A o \in 1..Len(hourly.table) :
            \E k \in 1..Len(DATASETS) :
                /\ FromIso(DATASETS[k][2]) <= hourly.table[o].date[1]
                /\ hourly.table[o].date[1] <= FromIso(DATASETS[k][3])
                /\ hourly.table[o].source = SourceTag(k)

====
